---- MODULE Spec2Model ----
(***************************************************************************)
(* Model of the recording subsystem of the sentra-lab engine               *)
(* (packages/engine/src/recording): the lock-free event queue              *)
(* (event_queue.rs), the batch store (storage.rs) and the recorder with    *)
(* its background writer (recorder.rs); of the agent pool, the scheduler   *)
(* and the agent runtime (packages/engine/src/runtime); and of the routing *)
(* table, the TLS handler and the HTTP interceptor                         *)
(* (packages/engine/src/interception).                                     *)
(*                                                                         *)
(* The specifications share the variables below:                           *)
(*   SpecQueue    - threads calling EventQueue::push / try_pop / stats     *)
(*   SpecStore    - callers of EventStorage::write_batch, and reopening    *)
(*   SpecRecorder - callers of record() and flush(), and the writer task   *)
(*                  of a recorder on which start() ran once                *)
(*   SpecSession  - SpecRecorder with a storage that does not fail, a      *)
(*                  caller of shutdown(), and a fairly scheduled writer    *)
(*   SpecPool     - borrowers calling AgentPool::acquire / release / stats *)
(*   SpecSched    - a submitter and workers of WorkStealingScheduler       *)
(*   SpecSchedFair - SpecSched with running calls that go on              *)
(*   SpecFifo     - SpecSched with one worker and tasks of any priority    *)
(*   SpecRouting  - callers of RoutingTable::add_route / remove_route /    *)
(*                  clear_routes / lookup                                  *)
(*   SpecIntercept - requests served by HttpInterceptor::handle_request    *)
(*                  and callers of TlsHandler::generate_cert_for_domain    *)
(*   SpecRuntime  - execute / reset / shutdown on one AgentRuntime and     *)
(*                  its interpreter child                                  *)
(*   SpecSandbox  - AgentRuntime::spawn applying the caps of its Sandbox   *)
(*   SpecStart    - start / record / flush / shutdown on one recorder,     *)
(*                  with every drain task start() spawned                  *)
(*                                                                         *)
(* Events are the numbers 1, 2, .. in the order of the push / record calls *)
(* that carry them.                                                        *)
(***************************************************************************)
EXTENDS Integers, Sequences, FiniteSets, TLC

(***************************************************************************)
(* Bounds of the model                                                     *)
(***************************************************************************)
\* capacity passed to EventQueue::new
QCap == 2
\* number of events ever handed to push / record
MaxEvents == 3
\* threads operating on the queue in SpecQueue
NumThreads == 2

\* callers inside EventStorage::write_batch in SpecStore
NumWriters == 2
\* write_batch calls per run of SpecStore
MaxWrites == 3
\* times EventStorage::new opens the same base directory in SpecStore
MaxOpens == 2
\* longest payload handed to write_batch in SpecStore
MaxPayloadLen == 2
\* RecorderConfig.batch_size
BatchSize == 2
\* write_batch calls the writer task makes per run of SpecRecorder
MaxBatches == 3

\* largest AgentPoolConfig.pool_size in SpecPool
MaxPoolSize == 4
\* tasks borrowing agents in SpecPool
NumBorrowers == 2

\* num_workers passed to WorkStealingScheduler::new
NumWorkers == 2
\* tasks ever handed to submit / submit_batch in SpecSched
MaxTasks == 3

\* most routes in the RoutingTable in SpecRouting
MaxRoutes == 2
\* largest Route.priority in SpecRouting
MaxPriority == 1

\* requests the proxy serves in SpecIntercept
MaxRequests == 2
\* executes started on one runtime, and unread lines in the child's pipe
MaxExecs == 3
MaxLines == 2
\* spawns of one agent runtime
MaxSpawns == 2
\* calls of start() on one recorder, and events recorded on it
MaxStarts == 2
MaxRecs == 2

NoEvent == 0
Threads == 1..NumThreads
Writers == 1..NumWriters
Payloads == UNION {[1..n -> {0, 1}] : n \in 1..MaxPayloadLen}

VARIABLES
    \* ---- EventQueue (event_queue.rs:13-25)
    queue,          \* contents of the ArrayQueue, oldest first
    push_count,     \* AtomicU64
    pop_count,      \* AtomicU64
    drop_count,     \* AtomicU64
    \* ---- threads inside EventQueue methods (SpecQueue)
    pc,             \* position of each thread inside push / try_pop
    arg,            \* the event a thread carries (argument or popped value)
    ret,            \* value returned by the thread's last completed call
    snap,           \* the last QueueStats snapshot returned by stats()
    \* ---- history
    nextEv,         \* the next fresh event; nextEv - 1 calls of push so far
    accepted,       \* events the ArrayQueue accepted, in acceptance order
    popped,         \* events the ArrayQueue yielded, in pop order
    dropped,        \* events returned to a caller as dropped
    \* ---- EventStorage (storage.rs:38-42) and its base directory
    batch_counter,  \* Mutex<u64> of the open EventStorage
    files,          \* the events directory: path -> bytes
    index,          \* rows of table event_batches, in rowid order
    \* ---- callers inside write_batch (SpecStore)
    wpc,            \* position of each caller inside write_batch
    wid,            \* the counter value the caller drew
    wdata,          \* the caller's compressed_data
    wret,           \* result of the caller's last completed write_batch
    \* ---- history of the base directory
    allocs,         \* batch ids drawn so far, over every open of the directory
    opens,          \* calls of EventStorage::new on the directory
    overwrote,      \* TRUE once fs::write hit a path that already existed
    \* ---- EventRecorder (recorder.rs:86-94) and its writer task
    batch,          \* the writer task's working buffer (Vec<Event>)
    dpc,            \* position of the writer task: at the select!, or draining
    notified,       \* flush_notify holds a permit
    rstats,         \* RecorderStats behind the mutex
    statTasks,      \* spawned stat-update tasks of record() not yet run
    \* ---- history of the recorder
    lastRecord,     \* event and result of the last record() call
    lastAttempt,    \* the flush_batch call of the writer's last step, if any
    consecFails,    \* consecutive failed flush_batch calls, counted up to 3
    \* ---- the caller of EventRecorder::shutdown (SpecSession)
    sdpc,           \* position of the caller inside shutdown()
    sdAccepted,     \* history: events accepted when shutdown() was called
    partialFlush,   \* history: a select! arm flushed a buffer while events
                    \* were still to be popped
    \* ---- AgentPool (agent_pool.rs:101-113)
    pool_size,      \* config.pool_size
    available,      \* Mutex<Vec<PooledAgent>>: agent ids, last pushed last
    permits,        \* free permits of the semaphore
    total_agents,   \* Mutex<usize>: agents created
    \* ---- borrowers of the pool (SpecPool)
    bpc,            \* position of each borrower inside acquire / release
    held,           \* the agent a borrower owns, NoAgent if none
    bret,           \* result of the borrower's last completed call
    pstats,         \* the last PoolStats returned by stats()
    retired,        \* history: agents dropped by release after a failed reset
    \* ---- WorkStealingScheduler (work_stealing.rs:55-70)
    global_queue,   \* the Injector, oldest task first
    locals,         \* the Worker deque of each worker, oldest task first
    notify,         \* the Notify holds a permit
    \* ---- the submitter and the workers (SpecSched)
    subTasks,       \* tasks the running submit / submit_batch has still to push
    subNotify,      \* notify_one calls the running submit has still to make
    spc,            \* position of each worker inside get_task
    sret,           \* what the worker's last completed get_task returned
    \* ---- history of the scheduler
    nextTask,       \* the next fresh task; nextTask - 1 were handed to submit
    prio,           \* Task.priority of every task handed to submit
    returned,       \* tasks returned by get_task, in return order
    \* ---- RoutingTable (routing_table.rs:51-54)
    routes,         \* the HashMap: source-domain -> Route
    lastLookup,     \* domain and result of the last lookup on this table
    rret,           \* result of the last add_route / remove_route
    \* ---- TlsHandler (tls_handler.rs:38-40)
    auto_generate_certs,    \* config.auto_generate_certs
    certRet,        \* domain and result of the last generate_cert_for_domain
    \* ---- HttpInterceptor: the request being served (SpecIntercept)
    hpc,            \* position inside handle_request / forward_to_mock
    hhost,          \* the host extracted from the request
    htarget,        \* route.target of the route found
    hstatus,        \* status of the mock's response
    \* ---- history of the proxy
    served,         \* the requests answered so far, with their responses
    emitted,        \* events the interceptor handed to EventRecorder::record
    \* ---- AgentRuntime and its interpreter child (SpecRuntime)
    process,        \* self.process is Some(child)
    stdin,          \* self.stdin is Some(handle)
    stdout,         \* where the child's stdout handle is: "process" (in
                    \* child.stdout), "reader" (taken by read_response) or
                    \* "lost" (dropped with a reader)
    live,           \* the child process is running
    pending,        \* programs written to the child and not yet answered
    pipe,           \* lines the child wrote that nobody read yet
    epc,            \* position inside execute / read_response
    output,         \* lines read_response collected so far
    eret,           \* what the last execute returned
    execs,          \* executes started so far
    taken,          \* history: the lines the current read_response read
    tstate,         \* history: "timedout" since an execute timed out,
                    \* "recovered" since a reset after that, else "clean"
    \* ---- Sandbox and the spawn that applies it (SpecSandbox)
    limit_cpu,      \* resource_limits.cpu_quota is Some
    limit_memory,   \* resource_limits.memory_limit_mb is Some
    xpc,            \* position inside AgentRuntime::spawn / apply_limits
    written,        \* control-group files written for the current child
    unenforced,     \* history: a cap of the current child was not written
    alimRet,        \* what the last apply_limits returned
    spawnRet,       \* what the last spawn returned
    spawns,         \* spawns started so far
    \* ---- a recorder on which start() may run more than once (SpecStart)
    writer_handle,  \* self.writer_handle: NoHandle or the task of the handle
    tpc,            \* position of each spawned drain task in its loop
    tbatch,         \* the working buffer of each drain task
    abortReq,       \* the tasks whose handle was aborted
    mqueue,         \* the recorder's queue
    mnotify,        \* flush_notify holds a permit
    mcommitted,     \* the batches committed, in commit order
    mdpc,           \* position of the caller inside shutdown()
    shutRet,        \* shutdown() has returned and start() was not called since
    mnext           \* the next event to record

qvars == <<queue, push_count, pop_count, drop_count>>
tvars == <<pc, arg, ret, snap>>
hvars == <<nextEv, accepted, popped, dropped>>
svars == <<batch_counter, files, index>>
wvars == <<wpc, wid, wdata, wret, allocs, opens, overwrote>>
rvars == <<batch, dpc, notified, rstats, statTasks>>
gvars == <<lastRecord, lastAttempt, consecFails>>
lvars == <<sdpc, sdAccepted, partialFlush>>
pvars == <<pool_size, available, permits, total_agents>>
bvars == <<bpc, held, bret, pstats, retired>>
kvars == <<global_queue, locals, notify, subTasks, subNotify, spc, sret,
           nextTask, prio, returned>>
nvars == <<routes, lastLookup, rret>>
ivars == <<auto_generate_certs, certRet, hpc, hhost, htarget, hstatus, served,
           emitted>>
evars == <<process, stdin, stdout, live, pending, pipe, epc, output, eret,
           execs, taken, tstate>>
xvars == <<limit_cpu, limit_memory, xpc, written, unenforced, alimRet,
           spawnRet, spawns>>
mvars == <<writer_handle, tpc, tbatch, abortReq, mqueue, mnotify, mcommitted,
           mdpc, shutRet, mnext>>

(***************************************************************************)
(* EventQueue                                                              *)
(***************************************************************************)
Ret(kind, e) == [kind |-> kind, event |-> e]

\* a push that evicts the oldest element of a full queue and succeeds
ArrayPushForce(q, e) ==
    IF Len(q) < QCap
    THEN [ok |-> TRUE, queue |-> Append(q, e)]
    ELSE [ok |-> TRUE, queue |-> Append(Tail(q), e)]

\* ArrayQueue::push as used by EventQueue::push: bounded, never overwrites
ArrayPush(q, e) ==
    IF Len(q) < QCap
    THEN [ok |-> TRUE, queue |-> Append(q, e)]
    ELSE [ok |-> FALSE, queue |-> q]

\* a pop that takes the newest element instead of the oldest
ArrayPopNewest(q) ==
    IF q = <<>>
    THEN [some |-> FALSE, event |-> NoEvent, queue |-> q]
    ELSE [some |-> TRUE, event |-> q[Len(q)], queue |-> SubSeq(q, 1, Len(q) - 1)]

\* ArrayQueue::pop as used by EventQueue::try_pop
ArrayPop(q) ==
    IF q = <<>>
    THEN [some |-> FALSE, event |-> NoEvent, queue |-> q]
    ELSE [some |-> TRUE, event |-> Head(q), queue |-> Tail(q)]

\* QueueStats built by EventQueue::stats
QueueStats ==
    [push_count |-> push_count,
     pop_count |-> pop_count,
     drop_count |-> drop_count,
     current_size |-> Len(queue),
     capacity |-> QCap]

QueueInit ==
    /\ queue = <<>>
    /\ push_count = 0
    /\ pop_count = 0
    /\ drop_count = 0

ThreadInit ==
    /\ pc = [t \in Threads |-> "idle"]
    /\ arg = [t \in Threads |-> NoEvent]
    /\ ret = [t \in Threads |-> Ret("NoCall", NoEvent)]
    /\ snap = [push_count |-> 0, pop_count |-> 0, drop_count |-> 0,
               current_size |-> 0, capacity |-> QCap]

HistInit ==
    /\ nextEv = 1
    /\ accepted = <<>>
    /\ popped = <<>>
    /\ dropped = {}

\* push, first half: self.queue.push(event)
PushBegin(t) ==
    /\ pc[t] = "idle"
    /\ nextEv <= MaxEvents
    /\ LET r == ArrayPush(queue, nextEv) IN
        /\ queue' = r.queue
        /\ pc' = [pc EXCEPT ![t] = IF r.ok THEN "push_ok" ELSE "push_err"]
        /\ accepted' = IF r.ok THEN Append(accepted, nextEv) ELSE accepted
    /\ arg' = [arg EXCEPT ![t] = nextEv]
    /\ nextEv' = nextEv + 1
    /\ UNCHANGED <<push_count, pop_count, drop_count, ret, snap, popped, dropped>>

\* push, second half: the counter of the match arm, then the return value
PushEnd(t) ==
    /\ pc[t] \in {"push_ok", "push_err"}
    /\ IF pc[t] = "push_ok"
       THEN /\ push_count' = push_count + 1
            /\ ret' = [ret EXCEPT ![t] = Ret("Ok", NoEvent)]
            /\ UNCHANGED <<drop_count, dropped>>
       ELSE /\ drop_count' = drop_count + 1
            /\ ret' = [ret EXCEPT ![t] = Ret("Err", arg[t])]
            /\ dropped' = dropped \cup {arg[t]}
            /\ UNCHANGED push_count
    /\ pc' = [pc EXCEPT ![t] = "idle"]
    /\ arg' = [arg EXCEPT ![t] = NoEvent]
    /\ UNCHANGED <<queue, pop_count, snap, nextEv, accepted, popped>>

\* try_pop, first half: self.queue.pop(); the None arm returns at once
PopBegin(t) ==
    /\ pc[t] = "idle"
    /\ LET r == ArrayPop(queue) IN
        /\ queue' = r.queue
        /\ IF r.some
           THEN /\ pc' = [pc EXCEPT ![t] = "pop_some"]
                /\ arg' = [arg EXCEPT ![t] = r.event]
                /\ popped' = Append(popped, r.event)
                /\ UNCHANGED ret
           ELSE /\ ret' = [ret EXCEPT ![t] = Ret("None", NoEvent)]
                /\ UNCHANGED <<pc, arg, popped>>
    /\ UNCHANGED <<push_count, pop_count, drop_count, snap, nextEv, accepted, dropped>>

\* try_pop, second half: pop_count.fetch_add(1), then Some(event)
PopEnd(t) ==
    /\ pc[t] = "pop_some"
    /\ pop_count' = pop_count + 1
    /\ ret' = [ret EXCEPT ![t] = Ret("Some", arg[t])]
    /\ pc' = [pc EXCEPT ![t] = "idle"]
    /\ arg' = [arg EXCEPT ![t] = NoEvent]
    /\ UNCHANGED <<queue, push_count, drop_count, snap, hvars>>

\* stats(): the four loads and the snapshot handed back
Stats(t) ==
    /\ pc[t] = "idle"
    /\ snap' = QueueStats
    /\ UNCHANGED <<qvars, pc, arg, ret, hvars>>

Quiescent == \A t \in Threads : pc[t] = "idle"

(***************************************************************************)
(* EventStorage                                                            *)
(***************************************************************************)
BatchIdWidth == 8

RECURSIVE Digits(_)
Digits(n) == IF n < 10 THEN <<n>> ELSE Append(Digits(n \div 10), n % 10)

RECURSIVE ZeroPad(_, _)
ZeroPad(s, w) == IF Len(s) >= w THEN s ELSE ZeroPad(<<0>> \o s, w)

\* format!("batch_{:08}", counter)
FormatBatchId(n) == [prefix |-> "batch_", digits |-> ZeroPad(Digits(n), BatchIdWidth)]

\* base_dir.join(events_dir).join(format!("{}.zst", batch_id))
FilePath(batch_id) == [dir |-> "events", stem |-> batch_id, ext |-> "zst"]

WriteFile(fs, path, data) == [p \in DOMAIN fs \cup {path} |-> IF p = path THEN data ELSE fs[p]]

\* where a failing write stops: right after the file was created or
\* truncated, or just before the last byte
Cuts(data) == {0, Len(data) - 1} \cap 0..(Len(data) - 1)

\* fs::write(path, data): the file holds data in full on success; on an
\* error either the open failed and the directory is as before, or the
\* file was created or truncated and holds a proper prefix of data.
FsWrite(fs, path, data) ==
    {[ok |-> TRUE, files |-> WriteFile(fs, path, data)]}
        \cup {[ok |-> FALSE, files |-> fs]}
        \cup {[ok |-> FALSE, files |-> WriteFile(fs, path, SubSeq(data, 1, k))] :
                k \in Cuts(data)}

\* the row of the INSERT INTO event_batches
BatchRow(batch_id, data) ==
    [batch_id |-> batch_id,
     file_path |-> FilePath(batch_id),
     event_count |-> 0,
     compressed_size |-> Len(data)]

\* db.execute(INSERT ...): the row is appended, or the statement fails
DbInsert(rows, row) ==
    {[ok |-> TRUE, index |-> Append(rows, row)], [ok |-> FALSE, index |-> rows]}

\* EventStorage::new on a fresh base directory
StorageInit ==
    /\ batch_counter = 0
    /\ files = [p \in {} |-> <<>>]
    /\ index = <<>>

WriterInit ==
    /\ wpc = [c \in Writers |-> "idle"]
    /\ wid = [c \in Writers |-> 0]
    /\ wdata = [c \in Writers |-> <<>>]
    /\ wret = [c \in Writers |-> "NoCall"]
    /\ allocs = <<>>
    /\ opens = 1
    /\ overwrote = FALSE

\* write_batch, lines 111-114: draw the next counter value under the lock
WbAlloc(c, data) ==
    /\ wpc[c] = "idle"
    /\ Len(allocs) < MaxWrites
    /\ batch_counter' = batch_counter + 1
    /\ wid' = [wid EXCEPT ![c] = batch_counter + 1]
    /\ wdata' = [wdata EXCEPT ![c] = data]
    /\ wpc' = [wpc EXCEPT ![c] = "write"]
    /\ allocs' = Append(allocs, FormatBatchId(batch_counter + 1))
    /\ UNCHANGED <<files, index, wret, opens, overwrote>>

\* write_batch, lines 117-123: write the file, return on error
WbWriteFile(c) ==
    /\ wpc[c] = "write"
    /\ \E out \in FsWrite(files, FilePath(FormatBatchId(wid[c])), wdata[c]) :
        /\ files' = out.files
        /\ overwrote' = (overwrote \/
                (files' # files /\ FilePath(FormatBatchId(wid[c])) \in DOMAIN files))
        /\ IF out.ok
           THEN /\ wpc' = [wpc EXCEPT ![c] = "insert"]
                /\ UNCHANGED <<wret, wid, wdata>>
           ELSE /\ wpc' = [wpc EXCEPT ![c] = "idle"]
                /\ wret' = [wret EXCEPT ![c] = "StorageFailed"]
                /\ wid' = [wid EXCEPT ![c] = 0]
                /\ wdata' = [wdata EXCEPT ![c] = <<>>]
    /\ UNCHANGED <<batch_counter, index, allocs, opens>>

\* write_batch, lines 128-146: insert the index row
WbInsert(c) ==
    /\ wpc[c] = "insert"
    /\ \E out \in DbInsert(index, BatchRow(FormatBatchId(wid[c]), wdata[c])) :
        /\ index' = out.index
        /\ wret' = [wret EXCEPT ![c] = IF out.ok THEN "Ok" ELSE "StorageFailed"]
    /\ wpc' = [wpc EXCEPT ![c] = "idle"]
    /\ wid' = [wid EXCEPT ![c] = 0]
    /\ wdata' = [wdata EXCEPT ![c] = <<>>]
    /\ UNCHANGED <<batch_counter, files, allocs, opens, overwrote>>

\* the store is dropped and EventStorage::new runs again on the directory:
\* create_dir_all and CREATE TABLE IF NOT EXISTS keep what is there, and
\* batch_counter starts at 0
Reopen ==
    /\ \A c \in Writers : wpc[c] = "idle"
    /\ opens < MaxOpens
    /\ batch_counter' = 0
    /\ opens' = opens + 1
    /\ UNCHANGED <<files, index, wpc, wid, wdata, wret, allocs, overwrote>>

(***************************************************************************)
(* EventRecorder                                                           *)
(***************************************************************************)
\* bytes that frame a serialized and a compressed batch; events are the
\* positive numbers
JsonOpen == 0 - 1
JsonClose == 0 - 2
ZstdMagic == 0 - 3

\* serde_json::to_vec(&batch): the events as one bracketed array
Serialize(b) == <<JsonOpen>> \o b \o <<JsonClose>>

Deserialize(bytes) ==
    IF Len(bytes) >= 2 /\ Head(bytes) = JsonOpen /\ bytes[Len(bytes)] = JsonClose
    THEN SubSeq(bytes, 2, Len(bytes) - 1)
    ELSE <<>>

\* Compressor::compress: a frame holding the input
Compress(bytes) == <<ZstdMagic>> \o bytes

\* Compressor::decompress
Decompress(bytes) ==
    IF bytes # <<>> /\ Head(bytes) = ZstdMagic THEN Tail(bytes) ELSE <<>>

\* write_batch run without interruption: the outcomes of lines 109-147
WriteBatch(counter, fs, rows, data) ==
    LET id == FormatBatchId(counter + 1) IN
    UNION {
        IF w.ok
        THEN {[ok |-> d.ok, batch_counter |-> counter + 1,
               files |-> w.files, index |-> d.index] :
                    d \in DbInsert(rows, BatchRow(id, data))}
        ELSE {[ok |-> FALSE, batch_counter |-> counter + 1,
               files |-> w.files, index |-> rows]} :
        w \in FsWrite(fs, FilePath(id), data)}

Store == [batch_counter |-> batch_counter, files |-> files, index |-> index]

\* a flush_batch that empties the buffer before the steps that can fail
FlushBatchTakesFirst(b) ==
    IF b = <<>>
    THEN {[ran |-> FALSE, ok |-> TRUE, events |-> b, batch |-> b, store |-> Store, rstats |-> rstats]}
    ELSE {[ran |-> TRUE, ok |-> FALSE, events |-> b, batch |-> <<>>, store |-> Store, rstats |-> rstats]}
         \cup {[ran |-> TRUE, ok |-> w.ok, events |-> b, batch |-> <<>>,
                store |-> [batch_counter |-> w.batch_counter, files |-> w.files,
                           index |-> w.index],
                rstats |-> rstats] :
                    w \in WriteBatch(batch_counter, files, index, Compress(Serialize(b)))}

\* a flush_batch that leaves the buffer as it is after a successful write
FlushBatchKeepsBuffer(b) ==
    IF b = <<>>
    THEN {[ran |-> FALSE, ok |-> TRUE, events |-> b, batch |-> b, store |-> Store, rstats |-> rstats]}
    ELSE {[ran |-> TRUE, ok |-> FALSE, events |-> b, batch |-> b, store |-> Store, rstats |-> rstats]}
         \cup {[ran |-> TRUE, ok |-> w.ok, events |-> b, batch |-> b,
                store |-> [batch_counter |-> w.batch_counter, files |-> w.files,
                           index |-> w.index],
                rstats |-> rstats] :
                    w \in WriteBatch(batch_counter, files, index, Compress(Serialize(b)))}

\* flush_batch(batch, ..): every outcome of one call with buffer b.  The
\* buffer is cleared and the stats are added to only after write_batch
\* returned Ok; the serialization and the compression error leave through ?
FlushBatch(b) ==
    IF b = <<>>
    THEN {[ran |-> FALSE, ok |-> TRUE, events |-> b, batch |-> b, store |-> Store, rstats |-> rstats]}
    ELSE {[ran |-> TRUE, ok |-> FALSE, events |-> b, batch |-> b, store |-> Store, rstats |-> rstats]}
         \cup {[ran |-> TRUE, ok |-> w.ok, events |-> b,
                batch |-> IF w.ok THEN <<>> ELSE b,
                store |-> [batch_counter |-> w.batch_counter, files |-> w.files,
                           index |-> w.index],
                rstats |-> IF w.ok
                           THEN [rstats EXCEPT
                                    !.batches_flushed = @ + 1,
                                    !.events_flushed = @ + Len(b),
                                    !.bytes_written = @ + Len(Compress(Serialize(b)))]
                           ELSE rstats] :
                    w \in WriteBatch(batch_counter, files, index, Compress(Serialize(b)))}

\* if let Err(e) = flush_batch(..) { error!(..) }: the loop goes on
AfterFlush(ok, cont) == cont

\* a buffer that takes the new event in front
BatchPushFront(b, e) == <<e>> \o b

\* batch.push(event)
BatchPush(b, e) == Append(b, e)

\* a record() that swallows the error of the queue
RecordResultIgnored(r) == "Ok"

\* the Result of record(): queue.push(..).map_err(..)?, then Ok(())
RecordResult(r) == IF r.ok THEN "Ok" ELSE "RecordingFailed"

\* read_batch(batch_id): the file the row of batch_id points to
ReadBatch(rows, fs, batch_id) ==
    LET i == CHOOSE k \in DOMAIN rows : rows[k].batch_id = batch_id
    IN  fs[rows[i].file_path]

NoAttempt == [events |-> <<>>, outcome |-> "none"]

\* EventRecorder::new, then start()
RecorderInit ==
    /\ batch = <<>>
    /\ dpc = "select"
    /\ notified = FALSE
    /\ rstats = [events_recorded |-> 0, events_flushed |-> 0,
                 batches_flushed |-> 0, bytes_written |-> 0]
    /\ statTasks = 0
    /\ lastRecord = [event |-> NoEvent, kind |-> "NoCall"]
    /\ lastAttempt = NoAttempt
    /\ consecFails = 0

\* nobody has called shutdown()
SessionInit ==
    /\ sdpc = "idle"
    /\ sdAccepted = 0
    /\ partialFlush = FALSE

\* the writer's step took outcome f of flush_batch
ApplyFlush(f) ==
    /\ batch' = f.batch
    /\ batch_counter' = f.store.batch_counter
    /\ files' = f.store.files
    /\ index' = f.store.index
    /\ rstats' = f.rstats
    /\ lastAttempt' = IF f.ran
                      THEN [events |-> f.events,
                            outcome |-> IF f.ok THEN "Ok" ELSE "Err"]
                      ELSE NoAttempt
    /\ consecFails' = IF ~f.ran THEN consecFails
                      ELSE IF f.ok THEN 0
                      ELSE IF consecFails < 3 THEN consecFails + 1 ELSE 3

\* record(event), called from any thread
Record ==
    /\ nextEv <= MaxEvents
    /\ LET r == ArrayPush(queue, nextEv) IN
        /\ queue' = r.queue
        /\ push_count' = IF r.ok THEN push_count + 1 ELSE push_count
        /\ drop_count' = IF r.ok THEN drop_count ELSE drop_count + 1
        /\ accepted' = IF r.ok THEN Append(accepted, nextEv) ELSE accepted
        /\ dropped' = IF r.ok THEN dropped ELSE dropped \cup {nextEv}
        /\ statTasks' = IF RecordResult(r) = "Ok" THEN statTasks + 1 ELSE statTasks
        /\ lastRecord' = [event |-> nextEv, kind |-> RecordResult(r)]
    /\ nextEv' = nextEv + 1
    /\ UNCHANGED <<pop_count, popped, svars, batch, dpc, notified, rstats,
                   lastAttempt, consecFails>>

\* the task record() spawned: events_recorded += 1 under the stats mutex
StatTask ==
    /\ statTasks > 0
    /\ statTasks' = statTasks - 1
    /\ rstats' = [rstats EXCEPT !.events_recorded = @ + 1]
    /\ UNCHANGED <<qvars, hvars, svars, batch, dpc, notified, gvars>>

\* flush(): notify_one, then the 50 ms sleep
FlushCall ==
    /\ notified' = TRUE
    /\ UNCHANGED <<qvars, hvars, svars, batch, dpc, rstats, statTasks, gvars>>

\* select! arm interval.tick()
Tick ==
    /\ dpc = "select"
    /\ batch = <<>> \/ batch_counter < MaxBatches
    /\ \E f \in FlushBatch(batch) :
        /\ ApplyFlush(f)
        /\ dpc' = AfterFlush(f.ok, "drain")
    /\ UNCHANGED <<qvars, hvars, notified, statTasks, lastRecord>>

\* select! arm flush_notify.notified()
Notified ==
    /\ dpc = "select"
    /\ notified
    /\ batch = <<>> \/ batch_counter < MaxBatches
    /\ notified' = FALSE
    /\ \E f \in FlushBatch(batch) :
        /\ ApplyFlush(f)
        /\ dpc' = AfterFlush(f.ok, "drain")
    /\ UNCHANGED <<qvars, hvars, statTasks, lastRecord>>

\* a drain round that never flushes on reaching batch_size
DrainPopNoThreshold ==
    /\ dpc = "drain"
    /\ LET r == ArrayPop(queue) IN
        /\ queue' = r.queue
        /\ IF r.some
           THEN /\ pop_count' = pop_count + 1
                /\ popped' = Append(popped, r.event)
                /\ batch' = BatchPush(batch, r.event)
                /\ lastAttempt' = NoAttempt
                /\ UNCHANGED <<svars, rstats, dpc, consecFails>>
           ELSE /\ dpc' = "select"
                /\ lastAttempt' = NoAttempt
                /\ UNCHANGED <<pop_count, popped, svars, batch, rstats, consecFails>>
    /\ UNCHANGED <<push_count, drop_count, nextEv, accepted, dropped, notified,
                   statTasks, lastRecord>>

\* one round of while let Some(event) = queue.try_pop()
DrainPop ==
    /\ dpc = "drain"
    /\ LET r == ArrayPop(queue) IN
        /\ queue' = r.queue
        /\ IF r.some
           THEN /\ pop_count' = pop_count + 1
                /\ popped' = Append(popped, r.event)
                /\ IF Len(BatchPush(batch, r.event)) >= BatchSize
                   THEN /\ batch_counter < MaxBatches
                        /\ \E f \in FlushBatch(BatchPush(batch, r.event)) :
                            /\ ApplyFlush(f)
                            /\ dpc' = AfterFlush(f.ok, "drain")
                   ELSE /\ batch' = BatchPush(batch, r.event)
                        /\ lastAttempt' = NoAttempt
                        /\ UNCHANGED <<svars, rstats, dpc, consecFails>>
           ELSE /\ dpc' = "select"
                /\ lastAttempt' = NoAttempt
                /\ UNCHANGED <<pop_count, popped, svars, batch, rstats, consecFails>>
    /\ UNCHANGED <<push_count, drop_count, nextEv, accepted, dropped, notified,
                   statTasks, lastRecord>>

(***************************************************************************)
(* AgentPool                                                               *)
(***************************************************************************)
\* AgentPoolConfig::default(): three supported_types, max_concurrent
NumTypes == 3
MaxConcurrent == 10000

NoAgent == 0
Borrowers == 1..NumBorrowers

\* a semaphore nobody closes: AgentPool never calls Semaphore::close, and
\* the pool owns the semaphore for as long as acquire can be called
SemaphoreClosed == FALSE

\* initialize_pool: agents_per_type = pool_size / supported_types.len()
AgentsPerType(n) == n \div NumTypes

\* initialize_pool: the Vec the two loops leave in `available`; the agent
\* ids are the values of total_agents, the first AgentsPerType(n) of them
\* of the first type and so on
InitializePool(n) == [i \in 1..(NumTypes * AgentsPerType(n)) |-> i]

\* a pop that hands out the last agent and leaves it in the Vec
PopAgentKeep(av) == [agent |-> av[Len(av)], rest |-> av]

\* available.pop() on a non-empty Vec
PopAgent(av) == [agent |-> av[Len(av)], rest |-> SubSeq(av, 1, Len(av) - 1)]

\* stats(): the PoolStats built under the lock of `available`
PoolStats ==
    [total_agents |-> pool_size,
     available_agents |-> Len(available),
     busy_agents |-> pool_size - Len(available),
     max_concurrent |-> MaxConcurrent]

\* AgentPool::with_config(config) with config.pool_size = n returned Ok
PoolCreated(n) ==
    /\ pool_size = n
    /\ available = InitializePool(n)
    /\ permits = n
    /\ total_agents = Len(InitializePool(n))

BorrowerInit ==
    /\ bpc = [b \in Borrowers |-> "idle"]
    /\ held = [b \in Borrowers |-> NoAgent]
    /\ bret = [b \in Borrowers |-> "NoCall"]
    /\ pstats = [total_agents |-> 0, available_agents |-> 0,
                 busy_agents |-> 0, max_concurrent |-> 0]
    /\ retired = {}

\* acquire, line 187: semaphore.acquire().await resumes with a permit
AcqPermit(b) ==
    /\ bpc[b] = "idle"
    /\ ~SemaphoreClosed
    /\ permits > 0
    /\ permits' = permits - 1
    /\ bpc' = [bpc EXCEPT ![b] = "permit"]
    /\ UNCHANGED <<pool_size, available, total_agents, held, bret, pstats, retired>>

\* acquire, lines 191-201: under the lock, pop an agent and forget the
\* permit, or return PoolExhausted and drop the permit
AcqPop(b) ==
    /\ bpc[b] = "permit"
    /\ IF available # <<>>
       THEN /\ available' = PopAgent(available).rest
            /\ held' = [held EXCEPT ![b] = PopAgent(available).agent]
            /\ bpc' = [bpc EXCEPT ![b] = "holding"]
            /\ bret' = [bret EXCEPT ![b] = "Agent"]
            /\ UNCHANGED permits
       ELSE /\ permits' = permits + 1
            /\ bpc' = [bpc EXCEPT ![b] = "idle"]
            /\ bret' = [bret EXCEPT ![b] = "PoolExhausted"]
            /\ UNCHANGED <<available, held>>
    /\ UNCHANGED <<pool_size, total_agents, pstats, retired>>

\* release(agent) is called: agent.reset() starts
Release(b) ==
    /\ bpc[b] = "holding"
    /\ bpc' = [bpc EXCEPT ![b] = "resetting"]
    /\ UNCHANGED <<pvars, held, bret, pstats, retired>>

\* agent.reset().await returns: shutdown of the process, then spawn
ResetDone(b, ok) ==
    /\ bpc[b] = "resetting"
    /\ bpc' = [bpc EXCEPT ![b] = IF ok THEN "reset_ok" ELSE "reset_err"]
    /\ UNCHANGED <<pvars, held, bret, pstats, retired>>

\* a release that keeps the permit of an agent whose reset failed
ReleaseFinishKeepsPermit(b) ==
    /\ bpc[b] \in {"reset_ok", "reset_err"}
    /\ IF bpc[b] = "reset_ok"
       THEN /\ available' = Append(available, held[b])
            /\ permits' = permits + 1
            /\ bret' = [bret EXCEPT ![b] = "Ok"]
            /\ UNCHANGED retired
       ELSE /\ retired' = retired \cup {held[b]}
            /\ bret' = [bret EXCEPT ![b] = "ResetFailed"]
            /\ UNCHANGED <<available, permits>>
    /\ held' = [held EXCEPT ![b] = NoAgent]
    /\ bpc' = [bpc EXCEPT ![b] = "idle"]
    /\ UNCHANGED <<pool_size, total_agents, pstats>>

\* release, lines 207-223: after a failed reset add a permit, drop the agent
\* and return the error; otherwise push the agent and add a permit, both
\* under the lock of `available`
ReleaseFinish(b) ==
    /\ bpc[b] \in {"reset_ok", "reset_err"}
    /\ IF bpc[b] = "reset_ok"
       THEN /\ available' = Append(available, held[b])
            /\ permits' = permits + 1
            /\ bret' = [bret EXCEPT ![b] = "Ok"]
            /\ UNCHANGED retired
       ELSE /\ permits' = permits + 1
            /\ retired' = retired \cup {held[b]}
            /\ bret' = [bret EXCEPT ![b] = "ResetFailed"]
            /\ UNCHANGED available
    /\ held' = [held EXCEPT ![b] = NoAgent]
    /\ bpc' = [bpc EXCEPT ![b] = "idle"]
    /\ UNCHANGED <<pool_size, total_agents, pstats>>

\* stats(), called by anyone at any time
PoolStatsCall ==
    /\ pstats' = PoolStats
    /\ UNCHANGED <<pvars, bpc, held, bret, retired>>

(***************************************************************************)
(* WorkStealingScheduler                                                   *)
(***************************************************************************)
NoTask == 0
SWorkers == 1..NumWorkers

\* WorkStealingScheduler::new(NumWorkers): an empty injector, one empty
\* FIFO deque per worker, a Notify without permit
SchedInit ==
    /\ global_queue = <<>>
    /\ locals = [w \in SWorkers |-> <<>>]
    /\ notify = FALSE
    /\ subTasks = <<>>
    /\ subNotify = 0
    /\ spc = [w \in SWorkers |-> "idle"]
    /\ sret = [w \in SWorkers |-> [kind |-> "NoCall", task |-> NoTask]]
    /\ nextTask = 1
    /\ prio = [t \in 1..MaxTasks |-> 0]
    /\ returned = <<>>

\* a steal that hands out the oldest task and leaves it in the queue
StealKeep(q) == [task |-> Head(q), rest |-> q]

\* a steal that hands out the newest task
StealNewest(q) == [task |-> q[Len(q)], rest |-> SubSeq(q, 1, Len(q) - 1)]

\* Injector::steal / Stealer::steal / Worker::pop of a FIFO deque with a
\* Success outcome: the oldest task leaves the queue
Steal(q) == [task |-> Head(q), rest |-> Tail(q)]

Min(a, b) == IF a < b THEN a ELSE b

\* Task::new(id, code): priority 0
DefaultPriority(n) == [i \in 1..n |-> 0]

\* submit(task) is the case n = 1 of submit_batch(tasks) with n tasks of
\* priorities p: the pushes come first, then min(n, num_workers) calls of
\* notify_one
SubmitBegin(n, p) ==
    /\ subTasks = <<>> /\ subNotify = 0
    /\ nextTask + n - 1 <= MaxTasks
    /\ subTasks' = [i \in 1..n |-> nextTask + i - 1]
    /\ subNotify' = Min(n, NumWorkers)
    /\ nextTask' = nextTask + n
    /\ prio' = [t \in 1..MaxTasks |->
                    IF t \in nextTask..(nextTask + n - 1)
                    THEN p[t - nextTask + 1]
                    ELSE prio[t]]
    /\ UNCHANGED <<global_queue, locals, notify, spc, sret, returned>>

\* a submit that pushes onto the deque of the first worker
SubmitPushLocal ==
    /\ subTasks # <<>>
    /\ locals' = [locals EXCEPT ![1] = Append(locals[1], Head(subTasks))]
    /\ subTasks' = Tail(subTasks)
    /\ UNCHANGED <<global_queue, notify, subNotify, spc, sret, nextTask, prio,
                   returned>>

\* global_queue.push(task)
SubmitPush ==
    /\ subTasks # <<>>
    /\ global_queue' = Append(global_queue, Head(subTasks))
    /\ subTasks' = Tail(subTasks)
    /\ UNCHANGED <<locals, notify, subNotify, spc, sret, nextTask, prio, returned>>

\* notify.notify_one(): wakes one waiting worker, or stores the one permit
SubmitNotify ==
    /\ subTasks = <<>> /\ subNotify > 0
    /\ subNotify' = subNotify - 1
    /\ IF \E w \in SWorkers : spc[w] = "waiting"
       THEN /\ \E w \in SWorkers :
                /\ spc[w] = "waiting"
                /\ spc' = [spc EXCEPT ![w] = "local"]
            /\ UNCHANGED notify
       ELSE /\ notify' = TRUE
            /\ UNCHANGED spc
    /\ UNCHANGED <<global_queue, locals, subTasks, sret, nextTask, prio, returned>>

\* get_task(w) is called
GetBegin(w) ==
    /\ spc[w] = "idle"
    /\ spc' = [spc EXCEPT ![w] = "local"]
    /\ UNCHANGED <<global_queue, locals, notify, subTasks, subNotify, sret,
                   nextTask, prio, returned>>

\* get_task returns Some(task)
ReturnSome(w, task) ==
    /\ spc' = [spc EXCEPT ![w] = "idle"]
    /\ sret' = [sret EXCEPT ![w] = [kind |-> "Some", task |-> task]]
    /\ returned' = Append(returned, task)

\* lines 127-130: worker.pop() on the worker's own deque
LocalPop(w) ==
    /\ spc[w] = "local"
    /\ IF locals[w] # <<>>
       THEN /\ locals' = [locals EXCEPT ![w] = Steal(locals[w]).rest]
            /\ ReturnSome(w, Steal(locals[w]).task)
       ELSE /\ spc' = [spc EXCEPT ![w] = "global"]
            /\ UNCHANGED <<locals, sret, returned>>
    /\ UNCHANGED <<global_queue, notify, subTasks, subNotify, nextTask, prio>>

\* lines 133-153: global_queue.steal() with its three outcomes; Retry is
\* what a steal that lost a race on a non-empty injector returns
GlobalSteal(w, outcome) ==
    /\ spc[w] = "global"
    /\ \/ /\ outcome = "Success"
          /\ global_queue # <<>>
          /\ global_queue' = Steal(global_queue).rest
          /\ ReturnSome(w, Steal(global_queue).task)
       \/ /\ outcome = "Empty"
          /\ global_queue = <<>>
          /\ spc' = [spc EXCEPT ![w] = "steal"]
          /\ UNCHANGED <<global_queue, sret, returned>>
       \/ /\ outcome = "Retry"
          /\ global_queue # <<>>
          /\ spc' = [spc EXCEPT ![w] = "local"]
          /\ UNCHANGED <<global_queue, sret, returned>>
    /\ UNCHANGED <<locals, notify, subTasks, subNotify, nextTask, prio>>

\* lines 140-143 and steal_from_others: a Success on the deque of some
\* other worker, in whatever order the shuffle visits them
StealOther(w, o) ==
    /\ spc[w] = "steal"
    /\ o # w
    /\ locals[o] # <<>>
    /\ locals' = [locals EXCEPT ![o] = Steal(locals[o]).rest]
    /\ ReturnSome(w, Steal(locals[o]).task)
    /\ UNCHANGED <<global_queue, notify, subTasks, subNotify, nextTask, prio>>

\* steal_from_others returned None (every deque gave Empty or Retry): the
\* worker goes on to notify.notified().await
StealNone(w) ==
    /\ spc[w] = "steal"
    /\ spc' = [spc EXCEPT ![w] = "park"]
    /\ UNCHANGED <<global_queue, locals, notify, subTasks, subNotify, sret,
                   nextTask, prio, returned>>

\* a get_task that gives up with None instead of waiting
ParkReturnsNone(w) ==
    /\ spc[w] = "park"
    /\ spc' = [spc EXCEPT ![w] = "idle"]
    /\ sret' = [sret EXCEPT ![w] = [kind |-> "None", task |-> NoTask]]
    /\ UNCHANGED <<global_queue, locals, notify, subTasks, subNotify,
                   nextTask, prio, returned>>

\* line 147: notified().await takes the stored permit and the loop starts
\* over, or the worker waits for notify_one
Park(w) ==
    /\ spc[w] = "park"
    /\ IF notify
       THEN /\ notify' = FALSE
            /\ spc' = [spc EXCEPT ![w] = "local"]
       ELSE /\ spc' = [spc EXCEPT ![w] = "waiting"]
            /\ UNCHANGED notify
    /\ UNCHANGED <<global_queue, locals, subTasks, subNotify, sret,
                   nextTask, prio, returned>>

(***************************************************************************)
(* RoutingTable                                                            *)
(***************************************************************************)
\* Domain names are strings, modelled as sequences of characters; the
\* letters stand for labels: o.c for openai.com, a.o.c for api.openai.com,
\* h.o.c for chat.openai.com, no.c for a name like notopenai.com that ends
\* with the characters of o.c, b.n for bar.net, f.c for foo.com
Dotted(a, b) == a \o <<".">> \o b
OC == Dotted(<<"o">>, <<"c">>)
AOC == Dotted(<<"a">>, OC)
HOC == Dotted(<<"h">>, OC)
AHOC == Dotted(<<"a">>, HOC)
NOC == Dotted(<<"n", "o">>, <<"c">>)
BN == Dotted(<<"b">>, <<"n">>)
FC == Dotted(<<"f">>, <<"c">>)

\* the pattern *.X
Wild(x) == <<"*", ".">> \o x

\* the domains looked up, and the source-domains of the routes added
DomainNames == {OC, AOC, HOC, AHOC, NOC, BN}
Patterns == DomainNames \cup {Wild(OC), Wild(HOC), Wild(FC)}
Targets == {"U1", "U2"}

Route(domain, target, priority) ==
    [domain |-> domain, target |-> target, priority |-> priority]

None == [some |-> FALSE]
Some(r) == [some |-> TRUE, route |-> r]

NoLookup == [domain |-> <<>>, result |-> None]

\* pattern.starts_with("*.")
StartsWithWild(pattern) ==
    Len(pattern) >= 2 /\ pattern[1] = "*" /\ pattern[2] = "."

\* &pattern[2..]
Suffix(pattern) == SubSeq(pattern, 3, Len(pattern))

\* domain.ends_with(suffix)
EndsWith(domain, suffix) ==
    /\ Len(suffix) <= Len(domain)
    /\ SubSeq(domain, Len(domain) - Len(suffix) + 1, Len(domain)) = suffix

\* the keys on which the wildcard loop of lookup returns
WildcardHits(table, domain) ==
    {pattern \in DOMAIN table :
        StartsWithWild(pattern) /\ EndsWith(domain, Suffix(pattern))}

\* a lookup that tries the wildcard patterns before the exact key
LookupResultsWildFirst(table, domain) ==
    IF WildcardHits(table, domain) # {}
    THEN {Some(table[pattern]) : pattern \in WildcardHits(table, domain)}
    ELSE IF domain \in DOMAIN table
    THEN {Some(table[domain])}
    ELSE {None}

\* lookup(domain): the exact key first; then the first hit of the loop over
\* routes.iter(), whose order is that of the HashMap and so any order
LookupResults(table, domain) ==
    IF domain \in DOMAIN table
    THEN {Some(table[domain])}
    ELSE IF WildcardHits(table, domain) # {}
    THEN {Some(table[pattern]) : pattern \in WildcardHits(table, domain)}
    ELSE {None}

\* RoutingTable::new()
RoutingInit ==
    /\ routes = <<>>
    /\ lastLookup = NoLookup
    /\ rret = "NoCall"

\* add_route(route): routes.insert(domain, route)
AddRoute(route) ==
    /\ Cardinality(DOMAIN routes \cup {route.domain}) <= MaxRoutes
    /\ routes' = [k \in DOMAIN routes \cup {route.domain} |->
                    IF k = route.domain THEN route ELSE routes[k]]
    /\ rret' = "Ok"
    /\ lastLookup' = NoLookup

\* remove_route(domain)
RemoveRoute(domain) ==
    /\ IF domain \in DOMAIN routes
       THEN /\ routes' = [k \in DOMAIN routes \ {domain} |-> routes[k]]
            /\ rret' = "Ok"
       ELSE /\ rret' = "ConfigError"
            /\ UNCHANGED routes
    /\ lastLookup' = NoLookup

\* clear_routes()
ClearRoutes ==
    /\ routes # <<>>
    /\ routes' = <<>>
    /\ rret' = "NoCall"
    /\ lastLookup' = NoLookup

\* lookup(domain)
Lookup(domain) ==
    /\ \E result \in LookupResults(routes, domain) :
        lastLookup' = [domain |-> domain, result |-> result]
    /\ UNCHANGED <<routes, rret>>

(***************************************************************************)
(* TlsHandler and HttpInterceptor                                          *)
(***************************************************************************)
\* StatusCode::BAD_GATEWAY, and the statuses a mock answers with
BadGateway == 502
MockStatuses == {200, 404}

NoRouteBody == "No mock service configured for this host"
ForwardFailedBody == "Failed to reach mock service"
MockBody == "mock response body"

\* the host of a request that has none in its URI and no host header
Unknown == <<"u", "n", "k", "n", "o", "w", "n">>
NoHost == <<>>
NoTarget == "none"

\* lines 136-144: uri.host(), or the host header without port, or "unknown"
ExtractHost(h) == IF h = NoHost THEN Unknown ELSE h

\* the table of a proxy with the routes of scenario S3, and the empty table
ProxyTable ==
    [k \in {AOC, Wild(OC), Wild(FC)} |->
        Route(k, IF k = AOC THEN "U1" ELSE "U2", 0)]

NoCert == [domain |-> <<>>, kind |-> "NoCall"]

\* HttpInterceptor::new: nothing served, nothing minted
HandlerInit ==
    /\ certRet = NoCert
    /\ hpc = "idle"
    /\ hhost = NoHost
    /\ htarget = NoTarget
    /\ hstatus = 0
    /\ served = <<>>
    /\ emitted = <<>>

\* TlsHandler::new (TlsConfig::default) and HttpInterceptor::new
InterceptInit ==
    /\ auto_generate_certs = TRUE
    /\ HandlerInit

\* generate_cert_for_domain(domain)
GenerateCertForDomain(domain) ==
    /\ certRet' = [domain |-> domain,
                   kind |-> IF auto_generate_certs
                            THEN "Certificate" ELSE "InterceptionFailed"]
    /\ UNCHANGED <<auto_generate_certs, hpc, hhost, htarget, hstatus, served,
                   emitted>>

\* the response handle_request returns, with what was done for it
Answer(host, target, forwarded, status, body) ==
    [host |-> host, target |-> target, forwarded |-> forwarded,
     status |-> status, body |-> body]

\* lines 165-171: forward_to_mock returned Err
ForwardFailed(forwarded) ==
    /\ served' = Append(served, Answer(hhost, htarget, forwarded, BadGateway,
                                       ForwardFailedBody))
    /\ hpc' = "idle"
    /\ hhost' = NoHost
    /\ htarget' = NoTarget
    /\ hstatus' = 0
    /\ UNCHANGED <<auto_generate_certs, certRet, emitted>>

\* handle_request, lines 129-156 and 173-179: the host, the lookup, and
\* either the call of forward_to_mock or the 502 of a missing route
HandleRequest(h) ==
    /\ hpc = "idle"
    /\ Len(served) < MaxRequests
    /\ \E found \in LookupResults(routes, ExtractHost(h)) :
        IF found.some
        THEN /\ hhost' = ExtractHost(h)
             /\ htarget' = found.route.target
             /\ hpc' = "body"
             /\ UNCHANGED served
        ELSE /\ served' = Append(served, Answer(ExtractHost(h), NoTarget, FALSE,
                                                BadGateway, NoRouteBody))
             /\ UNCHANGED <<hpc, hhost, htarget>>
    /\ UNCHANGED <<auto_generate_certs, certRet, hstatus, emitted>>

\* forward_to_mock, lines 198-203: the body of the request is read
ReadBody(ok) ==
    /\ hpc = "body"
    /\ IF ok
       THEN /\ hpc' = "build"
            /\ UNCHANGED <<auto_generate_certs, certRet, hhost, htarget,
                           hstatus, served, emitted>>
       ELSE ForwardFailed(FALSE)

\* forward_to_mock, lines 206-215: the request to the mock is built and
\* handed to the client
BuildAndSend(ok) ==
    /\ hpc = "build"
    /\ IF ok
       THEN /\ hpc' = "sent"
            /\ UNCHANGED <<auto_generate_certs, certRet, hhost, htarget,
                           hstatus, served, emitted>>
       ELSE ForwardFailed(FALSE)

\* forward_to_mock, lines 215-217: the mock answers, or the request fails
MockReply(ok, status) ==
    /\ hpc = "sent"
    /\ IF ok
       THEN /\ hpc' = "collect"
            /\ hstatus' = status
            /\ UNCHANGED <<auto_generate_certs, certRet, hhost, htarget,
                           served, emitted>>
       ELSE ForwardFailed(TRUE)

\* forward_to_mock, lines 220-231, and handle_request, lines 159-164
CollectAndReturn(ok) ==
    /\ hpc = "collect"
    /\ IF ok
       THEN /\ served' = Append(served, Answer(hhost, htarget, TRUE, hstatus,
                                               MockBody))
            /\ hpc' = "idle"
            /\ hhost' = NoHost
            /\ htarget' = NoTarget
            /\ hstatus' = 0
            /\ UNCHANGED <<auto_generate_certs, certRet, emitted>>
       ELSE ForwardFailed(TRUE)

(***************************************************************************)
(* AgentRuntime: one interpreter child, execute with a timeout             *)
(***************************************************************************)
EndMarker == "__END__"
\* a line of program output that has the delimiter between blanks
PaddedEnd == " __END__ "
OutLines == {"a", "b", PaddedEnd}

\* str::trim on the lines above
Trim(line) == IF line = PaddedEnd THEN EndMarker ELSE line

\* ProcessManager::spawn and AgentRuntime::spawn: a running child with piped
\* stdin and stdout, the stdin handle taken into self.stdin
Spawned ==
    /\ process' = TRUE
    /\ stdin' = TRUE
    /\ stdout' = "process"
    /\ live' = TRUE
    /\ pending' = 0
    /\ pipe' = <<>>

\* AgentRuntime::new: the initial process is spawned
RuntimeInit ==
    /\ process = TRUE
    /\ stdin = TRUE
    /\ stdout = "process"
    /\ live = TRUE
    /\ pending = 0
    /\ pipe = <<>>
    /\ epc = "idle"
    /\ output = <<>>
    /\ eret = "NoCall"
    /\ execs = 0
    /\ taken = <<>>
    /\ tstate = "clean"

\* execute, lines 144-162: the program and the delimiter are written to the
\* child's stdin; without a handle, or into the pipe of a child that has
\* exited, the call fails
ExecuteBegin ==
    /\ epc = "idle"
    /\ execs < MaxExecs
    /\ execs' = execs + 1
    /\ IF stdin /\ live
       THEN /\ pending' = pending + 1
            /\ epc' = "read"
            /\ eret' = "NoCall"
       ELSE /\ eret' = "RuntimeError"
            /\ UNCHANGED <<pending, epc>>
    /\ UNCHANGED <<process, stdin, stdout, live, pipe, output, taken, tstate>>

\* read_response, lines 174-183: the stdout handle is taken out of the child
ReadStart ==
    /\ epc = "read"
    /\ IF process /\ stdout = "process"
       THEN /\ stdout' = "reader"
            /\ output' = <<>>
            /\ taken' = <<>>
            /\ epc' = "loop"
            /\ UNCHANGED eret
       ELSE /\ eret' = "RuntimeError"
            /\ epc' = "idle"
            /\ UNCHANGED <<stdout, output, taken>>
    /\ UNCHANGED <<process, stdin, live, pending, pipe, execs, tstate>>

\* read_response, lines 202-205: the handle goes back and the output is
\* returned
ReadDone ==
    /\ stdout' = "process"
    /\ eret' = "Ok"
    /\ epc' = "idle"

\* read_response, line 193: output.push_str(&line)
Collect(line) == output' = Append(output, line)

\* read_response, lines 187-194: one line is read; a line that trims to the
\* delimiter ends the loop
ReadLine ==
    /\ epc = "loop"
    /\ pipe # <<>>
    /\ pipe' = Tail(pipe)
    /\ taken' = Append(taken, Head(pipe))
    /\ IF Trim(Head(pipe)) = EndMarker
       THEN ReadDone /\ UNCHANGED output
       ELSE /\ Collect(Head(pipe))
            /\ UNCHANGED <<stdout, eret, epc>>
    /\ UNCHANGED <<process, stdin, live, pending, execs, tstate>>

\* read_response, line 188: end of file, the child has exited
ReadEOF ==
    /\ epc = "loop"
    /\ pipe = <<>>
    /\ ~live
    /\ ReadDone
    /\ UNCHANGED <<process, stdin, live, pending, pipe, output, execs, taken,
                   tstate>>

\* read_response, lines 195-198: a read error returns at once, the reader
\* and the handle inside it are dropped
ReadError ==
    /\ epc = "loop"
    /\ pipe # <<>>
    /\ stdout' = "lost"
    /\ eret' = "RuntimeError"
    /\ epc' = "idle"
    /\ UNCHANGED <<process, stdin, live, pending, pipe, output, execs, taken,
                   tstate>>

\* a dropped read future that hands the stdout handle back
DropReaderKeepsStdout == stdout' = "process"

\* read_response, lines 178-181, dropped before line 203: the reader and the
\* handle inside it are gone
DropReader == stdout' = "lost"

\* execute, lines 165-167: the timer fires while read_response waits for a
\* line (the timeout polls the read first, so the handle has been taken);
\* the read future is dropped and the error is returned
Timeout ==
    /\ epc = "loop"
    /\ eret' = "ExecutionTimeout"
    /\ epc' = "idle"
    /\ DropReader
    /\ tstate' = "timedout"
    /\ UNCHANGED <<process, stdin, live, pending, pipe, output, execs, taken>>

\* shutdown, lines 239-270: the child, if any, is killed and waited for, and
\* the stdin handle is dropped
Shutdown ==
    /\ epc = "idle"
    /\ process' = FALSE
    /\ live' = IF process THEN FALSE ELSE live
    /\ stdin' = FALSE
    /\ UNCHANGED <<stdout, pending, pipe, epc, output, eret, execs, taken,
                   tstate>>

\* reset, lines 209-218: shutdown, then spawn; a spawn that fails leaves the
\* runtime without process and without stdin
Reset(ok) ==
    /\ epc = "idle"
    /\ IF ok
       THEN /\ Spawned
            /\ tstate' = IF tstate = "timedout" THEN "recovered" ELSE tstate
       ELSE /\ process' = FALSE
            /\ live' = IF process THEN FALSE ELSE live
            /\ stdin' = FALSE
            /\ UNCHANGED <<stdout, pending, pipe, tstate>>
    /\ UNCHANGED <<epc, output, eret, execs, taken>>

\* the interpreter prints a line of output of the program it is running
ChildLine(line) ==
    /\ live
    /\ pending > 0
    /\ stdout # "lost"
    /\ Len(pipe) < MaxLines
    /\ Len(output) < MaxLines
    /\ pipe' = Append(pipe, line)
    /\ UNCHANGED <<process, stdin, stdout, live, pending, epc, output, eret,
                   execs, taken, tstate>>

\* the interpreter finished a program and prints the delimiter
ChildEnd ==
    /\ live
    /\ pending > 0
    /\ stdout # "lost"
    /\ Len(pipe) < MaxLines
    /\ pipe' = Append(pipe, EndMarker)
    /\ pending' = pending - 1
    /\ UNCHANGED <<process, stdin, stdout, live, epc, output, eret, execs,
                   taken, tstate>>

\* the interpreter exits on its own
ChildExit ==
    /\ live
    /\ live' = FALSE
    /\ UNCHANGED <<process, stdin, stdout, pending, pipe, epc, output, eret,
                   execs, taken, tstate>>

(***************************************************************************)
(* Sandbox: control-group caps applied to a spawned child                  *)
(***************************************************************************)
CpuKnobs == {"cpu.cfs_quota_us", "cpu.cfs_period_us", "cpu/cgroup.procs"}
MemoryKnobs == {"memory.limit_in_bytes", "memory/cgroup.procs"}

\* Sandbox::new and the start of a runtime: nothing spawned yet
SpawnIdle ==
    /\ xpc = "idle"
    /\ written = {}
    /\ unenforced = FALSE
    /\ alimRet = "NoCall"
    /\ spawnRet = "NoCall"
    /\ spawns = 0

\* SandboxConfig::default: both caps switched on
SandboxInit ==
    /\ limit_cpu = TRUE
    /\ limit_memory = TRUE
    /\ SpawnIdle

\* a control-group directory that cannot be created fails the call
MkdirErrorFatal == "Err"

\* apply_cpu_limit / apply_memory_limit, lines 113-116 and 160-163: a
\* directory that cannot be created is logged and the call returns Ok(())
MkdirError == "Ok"

\* apply_cpu_limit / apply_memory_limit: the files of knobs whose create and
\* write succeed (oks) are written when the directory exists; the result
\* of every create and write is discarded
ApplyLimit(knobs, mkdirOk, oks) ==
    [result |-> IF mkdirOk THEN "Ok" ELSE MkdirError,
     files |-> IF mkdirOk THEN knobs \cap oks ELSE {}]

\* AgentRuntime::spawn, lines 118-129: the manager spawns the child; with a
\* pid the limits are applied next
SpawnBegin(ok, hasPid) ==
    /\ xpc = "idle"
    /\ spawns < MaxSpawns
    /\ spawns' = spawns + 1
    /\ written' = {}
    /\ unenforced' = FALSE
    /\ alimRet' = "NoCall"
    /\ IF ok
       THEN /\ xpc' = IF hasPid THEN "cpu" ELSE "stdin"
            /\ spawnRet' = "NoCall"
       ELSE /\ xpc' = "idle"
            /\ spawnRet' = "ProcessSpawnFailed"
    /\ UNCHANGED <<limit_cpu, limit_memory>>

\* an error of apply_limits leaves spawn through the ? of line 122
LimitsFailed ==
    /\ alimRet' = "Err"
    /\ spawnRet' = "LimitsFailed"
    /\ xpc' = "idle"

\* apply_limits, lines 88-91
ApplyCpuLimit(mkdirOk, oks) ==
    /\ xpc = "cpu"
    /\ IF limit_cpu
       THEN LET r == ApplyLimit(CpuKnobs, mkdirOk, oks) IN
            /\ written' = written \cup r.files
            /\ unenforced' = (unenforced \/ r.files # CpuKnobs)
            /\ IF r.result = "Ok"
               THEN xpc' = "memory" /\ UNCHANGED <<alimRet, spawnRet>>
               ELSE LimitsFailed
       ELSE /\ xpc' = "memory"
            /\ UNCHANGED <<written, unenforced, alimRet, spawnRet>>
    /\ UNCHANGED <<limit_cpu, limit_memory, spawns>>

\* apply_limits, lines 93-98
ApplyMemoryLimit(mkdirOk, oks) ==
    /\ xpc = "memory"
    /\ IF limit_memory
       THEN LET r == ApplyLimit(MemoryKnobs, mkdirOk, oks) IN
            /\ written' = written \cup r.files
            /\ unenforced' = (unenforced \/ r.files # MemoryKnobs)
            /\ IF r.result = "Ok"
               THEN /\ xpc' = "stdin"
                    /\ alimRet' = "Ok"
                    /\ UNCHANGED spawnRet
               ELSE LimitsFailed
       ELSE /\ xpc' = "stdin"
            /\ alimRet' = "Ok"
            /\ UNCHANGED <<written, unenforced, spawnRet>>
    /\ UNCHANGED <<limit_cpu, limit_memory, spawns>>

\* AgentRuntime::spawn, lines 131-140: the piped stdin is taken and the
\* child is stored
SpawnFinish ==
    /\ xpc = "stdin"
    /\ xpc' = "idle"
    /\ spawnRet' = "Ok"
    /\ UNCHANGED <<limit_cpu, limit_memory, written, unenforced, alimRet,
                   spawns>>

(***************************************************************************)
(* EventRecorder::start called any number of times, flush and shutdown     *)
(***************************************************************************)
NoHandle == 0
DrainTasks == 1..MaxStarts

\* EventRecorder::new: writer_handle is None, no task was spawned
StartInit ==
    /\ writer_handle = NoHandle
    /\ tpc = [t \in DrainTasks |-> "unborn"]
    /\ tbatch = [t \in DrainTasks |-> <<>>]
    /\ abortReq = {}
    /\ mqueue = <<>>
    /\ mnotify = FALSE
    /\ mcommitted = <<>>
    /\ mdpc = "idle"
    /\ shutRet = FALSE
    /\ mnext = 1

\* the spawned tasks that have not ended
LiveTasks == {t \in DrainTasks : tpc[t] \in {"select", "drain"}}

\* start(), line 183: self.writer_handle = Some(handle); the handle that was
\* there is dropped, which detaches its task
ReplaceHandle == UNCHANGED abortReq

\* start(), lines 119-185: a new task is spawned with an empty buffer
Start ==
    /\ mdpc = "idle"
    /\ \E t \in DrainTasks :
        /\ tpc[t] = "unborn"
        /\ \A u \in DrainTasks : u < t => tpc[u] # "unborn"
        /\ tpc' = [tpc EXCEPT ![t] = "select"]
        /\ writer_handle' = t
    /\ ReplaceHandle
    /\ shutRet' = FALSE
    /\ UNCHANGED <<tbatch, mqueue, mnotify, mcommitted, mdpc, mnext>>

\* record(event): queue.push
StartRecord ==
    /\ mnext <= MaxRecs
    /\ mqueue' = Append(mqueue, mnext)
    /\ mnext' = mnext + 1
    /\ UNCHANGED <<writer_handle, tpc, tbatch, abortReq, mnotify, mcommitted,
                   mdpc, shutRet>>

\* flush(), lines 210-217: notify_one, then the 50 ms sleep
StartFlush ==
    /\ mdpc = "idle"
    /\ mnotify' = TRUE
    /\ UNCHANGED <<writer_handle, tpc, tbatch, abortReq, mqueue, mcommitted,
                   mdpc, shutRet, mnext>>

\* shutdown(), line 272: self.flush().await
ShutdownBegin ==
    /\ mdpc = "idle"
    /\ mnotify' = TRUE
    /\ mdpc' = "sleep"
    /\ UNCHANGED <<writer_handle, tpc, tbatch, abortReq, mqueue, mcommitted,
                   shutRet, mnext>>

\* shutdown(), lines 275-279: the task of the handle, if any, is aborted,
\* and shutdown returns
ShutdownEnd ==
    /\ mdpc = "sleep"
    /\ mdpc' = "idle"
    /\ abortReq' = IF writer_handle = NoHandle THEN abortReq
                   ELSE abortReq \cup {writer_handle}
    /\ writer_handle' = NoHandle
    /\ shutRet' = TRUE
    /\ UNCHANGED <<tpc, tbatch, mqueue, mnotify, mcommitted, mnext>>

\* an aborted task ends at the await it is at or reaches next: the select!
\* or the write inside flush_batch; its buffer goes with it
TaskCancelled(t) ==
    /\ tpc[t] = "select"
    /\ t \in abortReq
    /\ tpc' = [tpc EXCEPT ![t] = "dead"]
    /\ tbatch' = [tbatch EXCEPT ![t] = <<>>]
    /\ UNCHANGED <<writer_handle, abortReq, mqueue, mnotify, mcommitted, mdpc,
                   shutRet, mnext>>

\* flush_batch of task t on a storage that works: a non-empty buffer b is
\* committed and cleared
TaskFlush(t, b) ==
    /\ mcommitted' = IF b = <<>> THEN mcommitted ELSE Append(mcommitted, b)
    /\ tbatch' = [tbatch EXCEPT ![t] = <<>>]

\* lines 135-163: either arm of the select!; the notified arm takes the permit
TaskWake(t, byNotify) ==
    /\ tpc[t] = "select"
    /\ t \notin abortReq
    /\ byNotify => mnotify
    /\ mnotify' = IF byNotify THEN FALSE ELSE mnotify
    /\ TaskFlush(t, tbatch[t])
    /\ tpc' = [tpc EXCEPT ![t] = "drain"]
    /\ UNCHANGED <<writer_handle, abortReq, mqueue, mdpc, shutRet, mnext>>

\* lines 165-179: one round of the drain loop; a loop that is running is
\* not stopped by abort before it reaches an await
TaskPop(t) ==
    /\ tpc[t] = "drain"
    /\ IF mqueue = <<>>
       THEN /\ tpc' = [tpc EXCEPT ![t] = "select"]
            /\ UNCHANGED <<tbatch, mqueue, mcommitted>>
       ELSE /\ mqueue' = Tail(mqueue)
            /\ IF Len(tbatch[t]) + 1 >= BatchSize
               THEN IF t \in abortReq
                    THEN /\ tpc' = [tpc EXCEPT ![t] = "dead"]
                         /\ tbatch' = [tbatch EXCEPT ![t] = <<>>]
                         /\ UNCHANGED mcommitted
                    ELSE /\ TaskFlush(t, Append(tbatch[t], Head(mqueue)))
                         /\ UNCHANGED tpc
               ELSE /\ tbatch' = [tbatch EXCEPT
                                    ![t] = Append(tbatch[t], Head(mqueue))]
                    /\ UNCHANGED <<tpc, mcommitted>>
    /\ UNCHANGED <<writer_handle, abortReq, mnotify, mdpc, shutRet, mnext>>

vars == <<qvars, tvars, hvars, svars, wvars, rvars, gvars, lvars, pvars, bvars,
         kvars, nvars, ivars, evars, xvars, mvars>>

InitAll ==
    /\ QueueInit /\ ThreadInit /\ HistInit
    /\ StorageInit /\ WriterInit
    /\ RecorderInit
    /\ SessionInit
    /\ SchedInit
    /\ RoutingInit
    /\ InterceptInit
    /\ RuntimeInit
    /\ SandboxInit
    /\ StartInit
    /\ PoolCreated(MaxPoolSize) /\ BorrowerInit

NextQueue ==
    /\ \E t \in Threads :
        \/ PushBegin(t)
        \/ PushEnd(t)
        \/ PopBegin(t)
        \/ PopEnd(t)
        \/ Stats(t)
    /\ UNCHANGED <<svars, wvars, rvars, gvars, lvars, pvars, bvars, kvars, nvars, ivars, evars, xvars, mvars>>

SpecQueue == InitAll /\ [][NextQueue]_vars

NextStore ==
    /\ \/ \E c \in Writers, data \in Payloads : WbAlloc(c, data)
       \/ \E c \in Writers : WbWriteFile(c)
       \/ \E c \in Writers : WbInsert(c)
       \/ Reopen
    /\ UNCHANGED <<qvars, tvars, hvars, rvars, gvars, lvars, pvars, bvars, kvars, nvars, ivars, evars, xvars, mvars>>

SpecStore == InitAll /\ [][NextStore]_vars

NextRecorder ==
    /\ \/ Record
       \/ StatTask
       \/ FlushCall
       \/ Tick
       \/ Notified
       \/ DrainPop
    /\ UNCHANGED <<tvars, wvars, lvars, pvars, bvars, kvars, nvars, ivars, evars, xvars, mvars>>

SpecRecorder == InitAll /\ [][NextRecorder]_vars

(***************************************************************************)
(* EventRecorder::shutdown, and the recorder over a storage that works     *)
(***************************************************************************)
\* what the steps of a session leave alone; serialization, compression and
\* write_batch do not fail
SessionFrame ==
    /\ lastAttempt'.outcome # "Err"
    /\ UNCHANGED <<tvars, wvars, pvars, bvars, kvars, nvars, ivars, evars, xvars, mvars>>

\* record() and flush() take &self and shutdown() takes &mut self: none of
\* them runs while shutdown() is between its two steps
SRecord == sdpc # "sleeping" /\ Record /\ UNCHANGED lvars /\ SessionFrame

SStatTask == StatTask /\ UNCHANGED lvars /\ SessionFrame

SFlushCall == sdpc # "sleeping" /\ FlushCall /\ UNCHANGED lvars /\ SessionFrame

\* a select! arm ran flush_batch on a buffer that is not empty while some
\* of the MaxEvents events was not popped yet
FlushesPartial == batch # <<>> /\ Len(popped) < MaxEvents

\* a tick that goes to the drain loop without flush_batch
STickNoFlush ==
    /\ dpc = "select"
    /\ dpc' = "drain"
    /\ UNCHANGED <<qvars, hvars, svars, batch, notified, rstats, statTasks,
                   gvars, lvars>>
    /\ SessionFrame

STick ==
    /\ Tick
    /\ partialFlush' = (partialFlush \/ FlushesPartial)
    /\ UNCHANGED <<sdpc, sdAccepted>>
    /\ SessionFrame

SNotified ==
    /\ Notified
    /\ partialFlush' = (partialFlush \/ FlushesPartial)
    /\ UNCHANGED <<sdpc, sdAccepted>>
    /\ SessionFrame

SDrainPop == DrainPop /\ UNCHANGED lvars /\ SessionFrame

\* shutdown(), line 273: self.flush().await? notifies the writer and starts
\* the 50 ms sleep
ShutdownFlush ==
    /\ sdpc = "idle"
    /\ dpc # "aborted"
    /\ sdpc' = "sleeping"
    /\ sdAccepted' = Len(accepted)
    /\ notified' = TRUE
    /\ UNCHANGED <<qvars, hvars, svars, batch, dpc, rstats, statTasks, gvars,
                   partialFlush>>
    /\ SessionFrame

\* shutdown(), lines 276-280: the sleep is over, writer_handle.take() and
\* abort().  The task ends at its next await: its working buffer is dropped
\* with it and it commits nothing after this point.
ShutdownAbort ==
    /\ sdpc = "sleeping"
    /\ sdpc' = "done"
    /\ dpc' = "aborted"
    /\ batch' = <<>>
    /\ UNCHANGED <<qvars, hvars, svars, notified, rstats, statTasks, gvars,
                   sdAccepted, partialFlush>>
    /\ SessionFrame

NextSession ==
    \/ SRecord
    \/ SStatTask
    \/ SFlushCall
    \/ STick
    \/ SNotified
    \/ SDrainPop
    \/ ShutdownFlush
    \/ ShutdownAbort

\* the interval of the writer task keeps ticking and the runtime keeps
\* polling the task for as long as it is not aborted
SpecSession ==
    InitAll /\ [][NextSession]_vars /\ WF_vars(STick) /\ WF_vars(SDrainPop)

InitPool ==
    /\ QueueInit /\ ThreadInit /\ HistInit
    /\ StorageInit /\ WriterInit
    /\ RecorderInit
    /\ SessionInit
    /\ SchedInit
    /\ RoutingInit
    /\ InterceptInit
    /\ RuntimeInit
    /\ SandboxInit
    /\ StartInit
    /\ \E n \in 1..MaxPoolSize : PoolCreated(n)
    /\ BorrowerInit

NextPool ==
    /\ \/ \E b \in Borrowers : AcqPermit(b)
       \/ \E b \in Borrowers : AcqPop(b)
       \/ \E b \in Borrowers : Release(b)
       \/ \E b \in Borrowers, ok \in BOOLEAN : ResetDone(b, ok)
       \/ \E b \in Borrowers : ReleaseFinish(b)
       \/ PoolStatsCall
    /\ UNCHANGED <<qvars, tvars, hvars, svars, wvars, rvars, gvars, lvars, kvars,
                   nvars, ivars, evars, xvars, mvars>>

SpecPool == InitPool /\ [][NextPool]_vars

NextSched ==
    /\ \/ \E n \in 1..MaxTasks : SubmitBegin(n, DefaultPriority(n))
       \/ SubmitPush
       \/ SubmitNotify
       \/ \E w \in SWorkers : GetBegin(w)
       \/ \E w \in SWorkers : LocalPop(w)
       \/ \E w \in SWorkers, outcome \in {"Success", "Empty", "Retry"} :
                GlobalSteal(w, outcome)
       \/ \E w, o \in SWorkers : StealOther(w, o)
       \/ \E w \in SWorkers : StealNone(w)
       \/ \E w \in SWorkers : Park(w)
    /\ UNCHANGED <<qvars, tvars, hvars, svars, wvars, rvars, gvars, lvars,
                   pvars, bvars, nvars, ivars, evars, xvars, mvars>>

SpecSched == InitAll /\ [][NextSched]_vars

\* what the steps of the scheduler leave alone
SchedFrame ==
    UNCHANGED <<qvars, tvars, hvars, svars, wvars, rvars, gvars, lvars,
                pvars, bvars, nvars, ivars, evars, xvars, mvars>>

\* a running submit goes on to its return, and a worker inside get_task
\* goes on with the step it is at; a steal from a non-empty injector
\* succeeds after finitely many Retry outcomes. Nothing makes a caller
\* start a submit or a get_task
SchedFairness ==
    /\ WF_vars(SubmitPush /\ SchedFrame)
    /\ WF_vars(SubmitNotify /\ SchedFrame)
    /\ \A w \in SWorkers :
        /\ WF_vars(LocalPop(w) /\ SchedFrame)
        /\ SF_vars(GlobalSteal(w, "Success") /\ SchedFrame)
        /\ WF_vars(GlobalSteal(w, "Empty") /\ SchedFrame)
        /\ WF_vars(StealNone(w) /\ SchedFrame)
        /\ WF_vars(Park(w) /\ SchedFrame)

SpecSchedFair == SpecSched /\ SchedFairness

\* one worker calling get_task, tasks of any priority
FifoWorker == 1

NextFifo ==
    /\ \/ \E n \in 1..MaxTasks :
            \E p \in [1..n -> 0..MaxPriority] : SubmitBegin(n, p)
       \/ SubmitPush
       \/ SubmitNotify
       \/ GetBegin(FifoWorker)
       \/ LocalPop(FifoWorker)
       \/ \E outcome \in {"Success", "Empty", "Retry"} :
                GlobalSteal(FifoWorker, outcome)
       \/ \E o \in SWorkers : StealOther(FifoWorker, o)
       \/ StealNone(FifoWorker)
       \/ Park(FifoWorker)
    /\ SchedFrame

SpecFifo == InitAll /\ [][NextFifo]_vars

NextRouting ==
    /\ \/ \E domain \in Patterns, target \in Targets, priority \in 0..MaxPriority :
                AddRoute(Route(domain, target, priority))
       \/ \E domain \in Patterns : RemoveRoute(domain)
       \/ ClearRoutes
       \/ \E domain \in DomainNames : Lookup(domain)
    /\ UNCHANGED <<qvars, tvars, hvars, svars, wvars, rvars, gvars, lvars,
                   pvars, bvars, kvars, ivars, evars, xvars, mvars>>

SpecRouting == InitAll /\ [][NextRouting]_vars

\* a proxy over an empty table or over the table of scenario S3, with
\* certificate generation switched on or off
InitIntercept ==
    /\ QueueInit /\ ThreadInit /\ HistInit
    /\ StorageInit /\ WriterInit
    /\ RecorderInit
    /\ SessionInit
    /\ SchedInit
    /\ PoolCreated(MaxPoolSize) /\ BorrowerInit
    /\ routes \in {<<>>, ProxyTable}
    /\ lastLookup = NoLookup
    /\ rret = "NoCall"
    /\ auto_generate_certs \in BOOLEAN
    /\ HandlerInit
    /\ RuntimeInit
    /\ SandboxInit
    /\ StartInit

NextIntercept ==
    /\ \/ \E domain \in DomainNames : GenerateCertForDomain(domain)
       \/ \E h \in DomainNames \cup {NoHost} : HandleRequest(h)
       \/ \E ok \in BOOLEAN : ReadBody(ok)
       \/ \E ok \in BOOLEAN : BuildAndSend(ok)
       \/ \E ok \in BOOLEAN, status \in MockStatuses : MockReply(ok, status)
       \/ \E ok \in BOOLEAN : CollectAndReturn(ok)
    /\ UNCHANGED <<qvars, tvars, hvars, svars, wvars, rvars, gvars, lvars,
                   pvars, bvars, kvars, nvars, evars, xvars, mvars>>

SpecIntercept == InitIntercept /\ [][NextIntercept]_vars

NextRuntime ==
    /\ \/ ExecuteBegin
       \/ ReadStart
       \/ ReadLine
       \/ ReadEOF
       \/ ReadError
       \/ Timeout
       \/ Shutdown
       \/ \E ok \in BOOLEAN : Reset(ok)
       \/ \E line \in OutLines : ChildLine(line)
       \/ ChildEnd
       \/ ChildExit
    /\ UNCHANGED <<qvars, tvars, hvars, svars, wvars, rvars, gvars, lvars,
                   pvars, bvars, kvars, nvars, ivars, xvars, mvars>>

SpecRuntime == InitAll /\ [][NextRuntime]_vars

\* a sandbox with either cap switched on or off
InitSandbox ==
    /\ QueueInit /\ ThreadInit /\ HistInit
    /\ StorageInit /\ WriterInit
    /\ RecorderInit
    /\ SessionInit
    /\ SchedInit
    /\ RoutingInit
    /\ InterceptInit
    /\ RuntimeInit
    /\ PoolCreated(MaxPoolSize) /\ BorrowerInit
    /\ limit_cpu \in BOOLEAN
    /\ limit_memory \in BOOLEAN
    /\ SpawnIdle
    /\ StartInit

NextSandbox ==
    /\ \/ \E ok, hasPid \in BOOLEAN : SpawnBegin(ok, hasPid)
       \/ \E mkdirOk \in BOOLEAN, oks \in SUBSET CpuKnobs :
            ApplyCpuLimit(mkdirOk, oks)
       \/ \E mkdirOk \in BOOLEAN, oks \in SUBSET MemoryKnobs :
            ApplyMemoryLimit(mkdirOk, oks)
       \/ SpawnFinish
    /\ UNCHANGED <<qvars, tvars, hvars, svars, wvars, rvars, gvars, lvars,
                   pvars, bvars, kvars, nvars, ivars, evars, mvars>>

SpecSandbox == InitSandbox /\ [][NextSandbox]_vars

NextStart ==
    /\ \/ Start
       \/ StartRecord
       \/ StartFlush
       \/ ShutdownBegin
       \/ ShutdownEnd
       \/ \E t \in DrainTasks : TaskCancelled(t)
       \/ \E t \in DrainTasks, byNotify \in BOOLEAN : TaskWake(t, byNotify)
       \/ \E t \in DrainTasks : TaskPop(t)
    /\ UNCHANGED <<qvars, tvars, hvars, svars, wvars, rvars, gvars, lvars,
                   pvars, bvars, kvars, nvars, ivars, evars, xvars>>

SpecStart == InitAll /\ [][NextStart]_vars

(***************************************************************************)
(* Claims about the ring queue (SpecQueue)                                 *)
(***************************************************************************)
NoDuplicates(s) == \A i, j \in DOMAIN s : i # j => s[i] # s[j]

\* C1: once no call is in progress, the number of push calls equals the
\* successful pops plus the dropped pushes plus the events still queued;
\* every popped event was pushed, and no event is popped twice.
C1_Conservation ==
    /\ Quiescent =>
          /\ nextEv - 1 = Len(popped) + Cardinality(dropped) + Len(queue)
          /\ 1..(nextEv - 1) =
                {popped[i] : i \in DOMAIN popped} \cup dropped
                    \cup {queue[i] : i \in DOMAIN queue}
    /\ \A i \in DOMAIN popped : popped[i] \in 1..(nextEv - 1)
    /\ NoDuplicates(popped)

C1_Witness ==
    /\ Quiescent
    /\ nextEv = MaxEvents + 1
    /\ dropped # {}
    /\ popped # <<>>
    /\ queue # <<>>

\* C2: in every quiescent state stats() satisfies
\* push_count = pop_count + drop_count + current_size (and the three
\* counters never decrease from one snapshot to the next).
C2_StatsBalance ==
    Quiescent =>
        QueueStats.push_count =
            QueueStats.pop_count + QueueStats.drop_count + QueueStats.current_size

\* C3: a push on a full queue does not block, hands the event back as
\* dropped, adds exactly 1 to the drop counter and leaves the contents
\* alone; pops then yield the accepted events in push order, then empty.
C3_FullPush ==
    /\ [](\A t \in Threads :
            (pc[t] = "idle" /\ nextEv <= MaxEvents) => ENABLED PushBegin(t))
    /\ [](popped \o queue = accepted)
    /\ [][\A t \in Threads :
            /\ (pc[t] = "idle" /\ nextEv' # nextEv /\ pc'[t] # "idle"
                    /\ Len(queue) >= QCap)
                => (pc'[t] = "push_err" /\ queue' = queue /\ arg'[t] = nextEv
                        /\ drop_count' = drop_count)
            /\ (pc[t] = "push_err" /\ pc'[t] = "idle")
                => (ret'[t] = Ret("Err", arg[t]) /\ drop_count' = drop_count + 1
                        /\ queue' = queue)
            /\ (pc[t] = "idle" /\ ret'[t] # ret[t] /\ ret'[t].kind = "None")
                => (queue = <<>> /\ queue' = queue)
            /\ (pc[t] # "push_err" \/ pc'[t] # "idle")
                => (drop_count' = drop_count \/ \E u \in Threads :
                        u # t /\ pc[u] = "push_err" /\ pc'[u] = "idle")]_vars

C3_Witness ==
    /\ Quiescent
    /\ Len(accepted) = QCap
    /\ drop_count = 1
    /\ dropped = {QCap + 1}
    /\ popped = accepted
    /\ queue = <<>>
    /\ \E t \in Threads : ret[t] = Ret("None", NoEvent)

(***************************************************************************)
(* Claims about the batch store (SpecStore)                                *)
(***************************************************************************)
WritersIdle == \A c \in Writers : wpc[c] = "idle"

IndexedIds == {index[i].batch_id : i \in DOMAIN index}

\* C5: after any sequence of write_batch calls on one store, failing or
\* not, the indexed batch ids are exactly batch_00000001 .. batch_N.
C5_DenseCommitted ==
    (opens = 1 /\ WritersIdle) =>
        IndexedIds = {FormatBatchId(n) : n \in 1..Len(index)}

\* C6: no batch id is drawn twice for one base directory, no two index
\* rows carry the same batch_id and no write_batch overwrites an earlier
\* batch file, also across closing and reopening the store.
C6_NoReuse ==
    /\ NoDuplicates(allocs)
    /\ NoDuplicates([i \in DOMAIN index |-> index[i].batch_id])
    /\ ~overwrote

\* C7: for every index row the referenced file exists and its length is
\* the row's compressed_size.
C7_RowHasFile ==
    \A i \in DOMAIN index :
        /\ index[i].file_path \in DOMAIN files
        /\ Len(files[index[i].file_path]) = index[i].compressed_size

(***************************************************************************)
(* Claims about the recorder (SpecRecorder)                                *)
(***************************************************************************)
\* the events of committed batch number n, none when n has no index row
BatchEvents(n) ==
    IF FormatBatchId(n) \in IndexedIds
    THEN Deserialize(Decompress(ReadBatch(index, files, FormatBatchId(n))))
    ELSE <<>>

RECURSIVE CommittedUpTo(_)
CommittedUpTo(n) == IF n = 0 THEN <<>> ELSE CommittedUpTo(n - 1) \o BatchEvents(n)

\* the committed batches read in batch-id order, each front to back
CommittedEvents == CommittedUpTo(batch_counter)

\* C4: the committed batches, read in batch-id order, hold the events in
\* the order the writer task popped them, which is the order of the
\* record() calls and so of every producer's program; this also holds
\* when flush attempts failed and were retried.
C4_BatchOrder ==
    /\ CommittedEvents \o batch = popped
    /\ \A i, j \in DOMAIN CommittedEvents :
            i < j => CommittedEvents[i] < CommittedEvents[j]

C4_Witness ==
    /\ Len(index) >= 2
    /\ batch_counter > Len(index)
    /\ Len(CommittedEvents) = MaxEvents
    /\ popped = CommittedEvents

\* C8: record(event) never waits; it enqueues the event and returns ok,
\* or, exactly when the queue is full, returns recording-failed and
\* leaves the queue as it was.
C8_RecordNeverWaits ==
    /\ [](nextEv <= MaxEvents => ENABLED Record)
    /\ [][nextEv' # nextEv =>
            /\ lastRecord'.event = nextEv
            /\ IF Len(queue) < QCap
               THEN lastRecord'.kind = "Ok" /\ queue' = Append(queue, nextEv)
               ELSE lastRecord'.kind = "RecordingFailed" /\ queue' = queue]_vars

C8_Witness ==
    /\ lastRecord.kind = "RecordingFailed"
    /\ Len(queue) = QCap
    /\ \A i \in DOMAIN queue : queue[i] # lastRecord.event
    /\ lastRecord.event \in dropped

\* C9: when a flush fails the writer task keeps running, the working
\* buffer keeps every event in the same order, and the next wake-up of the
\* select (the next tick at the latest) attempts to flush those events.
C9_RetainAndRetry ==
    /\ [](lastAttempt.outcome = "Err" =>
            (batch = lastAttempt.events /\ dpc \in {"select", "drain"}))
    /\ [][(dpc = "select" /\ dpc' # "select" /\ batch # <<>>) =>
            (lastAttempt'.outcome # "none" /\ lastAttempt'.events = batch)]_vars

C9_Witness ==
    /\ consecFails = 2
    /\ lastAttempt.outcome = "Err"
    /\ Len(batch) >= 2
    /\ batch = lastAttempt.events

\* C10: after three consecutive failed flush attempts the writer task has
\* discarded the oldest half of the retained events.
C10_DiscardAfterThree ==
    (consecFails >= 3 /\ lastAttempt.outcome = "Err") =>
        Len(batch) <= Len(lastAttempt.events) - (Len(lastAttempt.events) \div 2)

(***************************************************************************)
(* Claims about shutdown, partial batches and scenario S1 (SpecSession)    *)
(***************************************************************************)
Range(f) == {f[i] : i \in DOMAIN f}

\* C11: when shutdown() has returned, every event whose record() succeeded
\* before shutdown() was called is in a committed batch
C11_ShutdownFlushesAll ==
    sdpc = "done" =>
        \A i \in 1..sdAccepted : accepted[i] \in Range(CommittedEvents)

\* C12: while the writer task runs, every event record() accepted is
\* eventually in a committed batch, also when fewer than batch_size events
\* are pending
C12_EventuallyCommitted ==
    \A e \in 1..MaxEvents :
        (e \in Range(accepted)) ~> (e \in Range(CommittedEvents) \/ dpc = "aborted")

\* a tick committed a buffer of fewer than batch_size events
C12_Witness ==
    /\ lastAttempt.outcome = "Ok"
    /\ Len(lastAttempt.events) < BatchSize
    /\ dpc = "drain"
    /\ sdpc = "idle"
    /\ ~notified

\* every record call was made and accepted, the flush requests were
\* served and the writer task is back at its select! with nothing left
AllRecordedAndFlushed ==
    /\ nextEv = MaxEvents + 1
    /\ dropped = {}
    /\ Len(popped) = MaxEvents
    /\ batch = <<>>
    /\ dpc = "select"
    /\ ~notified
    /\ sdpc = "idle"

\* events 1..MaxEvents cut into runs of batch_size: the k-th run
Chunk(k) ==
    SubSeq([i \in 1..MaxEvents |-> i], (k - 1) * BatchSize + 1,
           IF k * BatchSize < MaxEvents THEN k * BatchSize ELSE MaxEvents)

NumChunks == (MaxEvents + BatchSize - 1) \div BatchSize

\* the index holds exactly the batches 1..NumChunks, in this order, and
\* batch k holds the k-th run of batch_size events
ChunkedBatches ==
    /\ Len(index) = NumChunks
    /\ \A k \in 1..NumChunks :
        /\ index[k].batch_id = FormatBatchId(k)
        /\ BatchEvents(k) = Chunk(k)

PoolQuiescent == \A b \in Borrowers : bpc[b] = "idle"

\* no borrower is inside acquire or release
NoCallInProgress == \A b \in Borrowers : bpc[b] \in {"idle", "holding"}

\* permits taken from the semaphore and not given back
PermitsHeld == Cardinality({b \in Borrowers : bpc[b] # "idle"})

\* C14: whenever no acquire or release is in progress, the free permits of
\* the semaphore are as many as the agents in the available set
C14_PermitsMatchAvailable ==
    NoCallInProgress => permits = Len(available)

\* C15: at every moment the permits held by callers are as many as the
\* busy_agents that stats() reports
C15_HeldMatchesBusy ==
    PermitsHeld = PoolStats.busy_agents

\* C16: stats() always has available_agents + busy_agents <= total_agents,
\* and once every acquired agent has been released it reports
\* available_agents = total_agents and busy_agents = 0
C16_StatsBounds ==
    /\ PoolStats.available_agents + PoolStats.busy_agents
            <= PoolStats.total_agents
    /\ PoolQuiescent =>
            /\ PoolStats.available_agents = PoolStats.total_agents
            /\ PoolStats.busy_agents = 0

\* the pool as with_config returned it: no call was made on it yet
FreshPool ==
    /\ PoolQuiescent
    /\ \A b \in Borrowers : bret[b] = "NoCall"

\* C17: immediately after creation with pool_size N the available set holds
\* N agents, stats() reports total_agents = N and available_agents = N, and
\* the semaphore has N permits
C17_CreatedFull ==
    FreshPool =>
        /\ Len(available) = pool_size
        /\ PoolStats.total_agents = pool_size
        /\ PoolStats.available_agents = pool_size
        /\ permits = pool_size

\* the places an agent is in: positions of the available Vec, borrowers
\* that own it (holding it or resetting it), and the retired set
Places(a) ==
    Cardinality({i \in DOMAIN available : available[i] = a})
    + Cardinality({b \in Borrowers : held[b] = a})
    + (IF a \in retired THEN 1 ELSE 0)

\* C18: every agent of the pool is in exactly one place: available, owned
\* by one borrower (held or under reset), or retired; no two borrowers own
\* the same agent
C18_OnePlace ==
    /\ \A a \in 1..total_agents : Places(a) = 1
    /\ \A b \in Borrowers :
        (held[b] # NoAgent) <=>
            (bpc[b] \in {"holding", "resetting", "reset_ok", "reset_err"})
    /\ \A b1, b2 \in Borrowers :
        (b1 # b2 /\ held[b1] # NoAgent) => held[b1] # held[b2]

\* two borrowers hold agents at the same time, a third agent is available
C18_Witness ==
    /\ \A b \in Borrowers : bpc[b] = "holding"
    /\ available # <<>>

\* C19: an acquire returns PoolExhausted only if the semaphore is closed
C19_ExhaustedOnlyClosed ==
    \A b \in Borrowers : bret[b] = "PoolExhausted" => SemaphoreClosed

\* agents in the available set or owned by a borrower
Circulating == Len(available) + Cardinality({b \in Borrowers : held[b] # NoAgent})

\* C20: a release whose reset succeeded puts the agent back, releases one
\* permit and returns Ok; a release whose reset failed does not put the
\* agent back, releases one permit all the same, leaves one agent fewer in
\* circulation and returns the reset error
C20_ReleaseOutcome ==
    [][\A b \in Borrowers :
        /\ (bpc[b] = "reset_ok" /\ bpc'[b] = "idle") =>
                /\ available' = Append(available, held[b])
                /\ permits' = permits + 1
                /\ bret'[b] = "Ok"
                /\ Circulating' = Circulating
        /\ (bpc[b] = "reset_err" /\ bpc'[b] = "idle") =>
                /\ available' = available
                /\ held[b] \in retired'
                /\ permits' = permits + 1
                /\ bret'[b] = "ResetFailed"
                /\ Circulating' = Circulating - 1]_vars

\* one release failed and another succeeded
C20_Witness ==
    /\ \E b \in Borrowers : bpc[b] = "idle" /\ bret[b] = "ResetFailed"
    /\ \E b \in Borrowers : bpc[b] = "idle" /\ bret[b] = "Ok"
    /\ retired # {}

(***************************************************************************)
(* Claims about the scheduler (SpecSched)                                  *)
(***************************************************************************)
\* the tasks in the injector or in a local deque, as a sequence
RECURSIVE LocalsUpTo(_)
LocalsUpTo(n) == IF n = 0 THEN <<>> ELSE LocalsUpTo(n - 1) \o locals[n]

Queued == global_queue \o LocalsUpTo(NumWorkers)

\* C21: no task is lost or duplicated: the tasks returned by get_task, the
\* tasks in the injector or a local deque and the tasks a running
\* submit_batch has not pushed yet are, each exactly once, the tasks handed
\* to submit / submit_batch
C21_NoLossNoDuplicate ==
    LET all == returned \o Queued \o subTasks IN
    /\ \A i, j \in DOMAIN all : i # j => all[i] # all[j]
    /\ Range(all) = 1..(nextTask - 1)

\* both workers returned a task while a third task is still queued
C21_Witness ==
    /\ Len(returned) >= 2
    /\ \A w \in SWorkers : sret[w].kind = "Some"
    /\ global_queue # <<>>

\* C22: get_task returns only with a task, never None, and a call that is
\* under way while the injector and every deque are empty does not return
C22_ReturnsOnlyTask ==
    [][\A w \in SWorkers :
        (spc[w] # "idle" /\ spc'[w] = "idle") =>
            /\ sret'[w].kind = "Some"
            /\ sret'[w].task \in Range(Queued)
            /\ returned' = Append(returned, sret'[w].task)]_vars

\* a worker waits inside get_task with nothing queued anywhere
C22_Witness ==
    /\ \E w \in SWorkers : spc[w] = "waiting"
    /\ Queued = <<>>
    /\ returned # <<>>

(***************************************************************************)
(* Claims about the routing table (SpecRouting)                            *)
(***************************************************************************)
\* a lookup was the last operation on the table, so that the table it ran
\* on is the value of routes
LookedUp == lastLookup # NoLookup

\* C23: whenever the table holds a route whose source-domain is the
\* looked-up domain, lookup returns that route, also when wildcard patterns
\* of the table match the domain
C23_ExactWins ==
    (LookedUp /\ lastLookup.domain \in DOMAIN routes) =>
        lastLookup.result = Some(routes[lastLookup.domain])

\* the exact route was returned although a wildcard pattern matches too
C23_Witness ==
    /\ LookedUp
    /\ lastLookup.domain \in DOMAIN routes
    /\ WildcardHits(routes, lastLookup.domain) # {}
    /\ lastLookup.result.some

\* domain is a proper sub-domain of x: it ends with .x and has at least
\* one character before that
ProperSubDomain(domain, x) ==
    /\ EndsWith(domain, <<".">> \o x)
    /\ Len(domain) > Len(x) + 1

\* the wildcard patterns of the table that match domain as *.X is meant to
ProperHits(table, domain) ==
    {pattern \in DOMAIN table :
        StartsWithWild(pattern) /\ ProperSubDomain(domain, Suffix(pattern))}

\* C24: without an exact route, lookup returns a wildcard route *.X
\* exactly when the domain is a proper sub-domain of X: not for X itself
\* and not for a domain that merely ends with the characters of X
C24_WildcardProper ==
    (LookedUp /\ lastLookup.domain \notin DOMAIN routes) =>
        /\ lastLookup.result.some <=> ProperHits(routes, lastLookup.domain) # {}
        /\ lastLookup.result.some =>
                lastLookup.result.route.domain \in ProperHits(routes, lastLookup.domain)

\* pattern p comes before pattern q: higher priority, then longer suffix
Better(table, p, q) ==
    \/ table[p].priority > table[q].priority
    \/ /\ table[p].priority = table[q].priority
       /\ Len(p) > Len(q)

\* C25: when several wildcard patterns match and there is no exact match,
\* lookup returns the route with the highest priority, ties broken by the
\* longest suffix (two patterns that match one domain and have suffixes of
\* the same length are the same pattern, so the lexical order never decides)
C25_BestWildcard ==
    (LookedUp /\ lastLookup.domain \notin DOMAIN routes /\ lastLookup.result.some) =>
        \A q \in WildcardHits(routes, lastLookup.domain) :
            q # lastLookup.result.route.domain =>
                Better(routes, lastLookup.result.route.domain, q)

(***************************************************************************)
(* Claims about the TLS handler and the interceptor (SpecIntercept)        *)
(***************************************************************************)
\* lookup(domain) finds a route in the table
HasRoute(domain) == LookupResults(routes, domain) # {None}

\* C26: generate_cert_for_domain(d) yields a certificate only if lookup(d)
\* finds a route
C26_NoCertWithoutRoute ==
    certRet.kind = "Certificate" => HasRoute(certRet.domain)

Made(host) == [kind |-> "ExternalCallMade", host |-> host]
Completed(host) == [kind |-> "ExternalCallCompleted", host |-> host]
Failed(host) == [kind |-> "ErrorEncountered", host |-> host]

\* the table holds a route for the domain: its exact source-domain, or a
\* wildcard pattern *.X of which the domain is a proper sub-domain
RouteExists(domain) ==
    domain \in DOMAIN routes \/ ProperHits(routes, domain) # {}

\* C27: a request whose host has no route is answered 502 with the body
\* "No mock service configured for this host", nothing is forwarded for
\* it, and no external-call-made or external-call-completed event is
\* recorded for it
C27_RouteMiss ==
    \A i \in DOMAIN served :
        ~RouteExists(served[i].host) =>
            /\ served[i].status = BadGateway
            /\ served[i].body = NoRouteBody
            /\ ~served[i].forwarded
            /\ served[i].target = NoTarget
            /\ Made(served[i].host) \notin Range(emitted)
            /\ Completed(served[i].host) \notin Range(emitted)

\* the events of one kind emitted so far
CountOf(kind) == Cardinality({i \in DOMAIN emitted : emitted[i].kind = kind})

\* C28: every request whose host has a route has an external-call-made
\* event, and an external-call-completed event after it once the mock's
\* response arrived; no completed event without a made event before it
C28_CallEvents ==
    /\ \A i \in DOMAIN served :
        (HasRoute(served[i].host) /\ served[i].body = MockBody) =>
            \E m, c \in DOMAIN emitted :
                /\ m < c
                /\ emitted[m] = Made(served[i].host)
                /\ emitted[c] = Completed(served[i].host)
    /\ \A c \in DOMAIN emitted :
        emitted[c].kind = "ExternalCallCompleted" =>
            \E m \in 1..(c - 1) : emitted[m] = Made(emitted[c].host)

\* C29: a forward that failed is answered 502 with the body "Failed to
\* reach mock service", and an error-encountered event is emitted for it
C29_ForwardFailure ==
    /\ \A i \in DOMAIN served :
        (HasRoute(served[i].host) /\ served[i].body # MockBody) =>
            /\ served[i].status = BadGateway
            /\ served[i].body = ForwardFailedBody
    /\ CountOf("ErrorEncountered") =
            Cardinality({i \in DOMAIN served : served[i].body = ForwardFailedBody})

(***************************************************************************)
(* Claims about the agent runtime (SpecRuntime)                            *)
(***************************************************************************)
\* execute returns in this step because its timer fired
TimedOut == epc # "idle" /\ epc' = "idle" /\ eret' = "ExecutionTimeout"

\* C30: an execute that does not read the delimiter in time fails with
\* execution-timeout, and when it has returned that error the child is no
\* longer live
C30_TimeoutKillsChild == [][TimedOut => ~live']_vars

\* execute returns Ok in this step
ReturnsOk == epc = "loop" /\ epc' = "idle" /\ eret' = "Ok"

\* C31: execute returns Ok only when the last line read is the line
\* `__END__`, and the response is the lines read before it, in order; an
\* end of file before the delimiter gives no Ok
C31_ResponseUpToEnd ==
    [][ReturnsOk =>
            /\ taken' # <<>>
            /\ taken'[Len(taken')] = EndMarker
            /\ output' = SubSeq(taken', 1, Len(taken') - 1)]_vars

\* execute returns in this step
ExecReturns ==
    \/ epc # "idle" /\ epc' = "idle"
    \/ epc = "idle" /\ epc' = "idle" /\ execs' = execs + 1

\* C40: once an execute has timed out the stdout handle is gone and every
\* later execute returns a runtime error, until a reset that succeeds, which
\* leaves the runtime with a fresh child and all its handles
C40_TimeoutPoisons ==
    [][/\ tstate' = "timedout" => stdout' = "lost"
       /\ (tstate = "timedout" /\ ExecReturns) => eret' = "RuntimeError"
       /\ (tstate = "timedout" /\ tstate' = "recovered") =>
            /\ process' /\ stdin' /\ live'
            /\ stdout' = "process"
            /\ pipe' = <<>>]_vars

\* an execute after the one that timed out has returned a runtime error
C40_Witness ==
    /\ tstate = "timedout"
    /\ epc = "idle"
    /\ eret = "RuntimeError"

(***************************************************************************)
(* Claims about the sandbox (SpecSandbox)                                  *)
(***************************************************************************)
\* C32: apply_limits never returns an error, whatever fails while the
\* control group is created and written, and no spawn fails because of the
\* limits
C32_LimitsBestEffort ==
    /\ alimRet # "Err"
    /\ spawnRet # "LimitsFailed"

\* a spawn succeeded although a cap that is switched on was not written
C32_Witness ==
    /\ spawnRet = "Ok"
    /\ alimRet = "Ok"
    /\ unenforced

(***************************************************************************)
(* Claims about task order, wake-ups and the local deques                  *)
(* (SpecFifo, SpecSchedFair, SpecSched)                                    *)
(***************************************************************************)
\* C33: with one worker, tasks are returned in the order of their
\* submission, whatever their priorities
C33_FifoWhateverPriority ==
    \A i, j \in DOMAIN returned : i < j => returned[i] < returned[j]

\* a task was returned before a task of higher priority submitted after it
C33_Witness ==
    \E i, j \in DOMAIN returned :
        /\ i < j
        /\ prio[returned[i]] < prio[returned[j]]

\* C37: a worker that waits in get_task while the injector holds a task
\* does not wait forever: it is woken, or the injector is emptied by
\* another worker
C37_NoLostWakeup ==
    \A w \in SWorkers :
        (spc[w] = "waiting" /\ global_queue # <<>>)
            ~> (spc[w] # "waiting" \/ global_queue = <<>>)

\* C38: every local deque is empty in every state, and every task returned
\* by get_task is the one at the head of the injector
C38_LocalsEmpty ==
    [][/\ \A w \in SWorkers : locals'[w] = <<>>
       /\ returned' # returned =>
            /\ global_queue # <<>>
            /\ returned' = Append(returned, Head(global_queue))
            /\ global_queue' = Tail(global_queue)]_vars

\* a worker found nothing to steal from the other deques and a task was
\* returned from the injector
C38_Witness ==
    /\ returned # <<>>
    /\ \E w \in SWorkers : spc[w] \in {"park", "waiting"}

(***************************************************************************)
(* Claims about the committed batches of the drain task (SpecRecorder)     *)
(***************************************************************************)
\* the events serialized into the batch of index row i
RowEvents(i) == Deserialize(Decompress(files[index[i].file_path]))

\* C34: the event_count of every index row is the number of events that
\* were serialized into its batch
C34_EventCount ==
    \A i \in DOMAIN index : index[i].event_count = Len(RowEvents(i))

\* C35: every committed batch holds at least one and at most batch_size
\* events, also after failed flush attempts
C35_BatchSizeBounds ==
    \A i \in DOMAIN index :
        /\ Len(RowEvents(i)) >= 1
        /\ Len(RowEvents(i)) <= BatchSize

\* how often event e occurs in sequence q
Occurrences(q, e) == Cardinality({k \in DOMAIN q : q[k] = e})

\* the indexed batches that hold event e
RowsWith(e) == {i \in DOMAIN index : Occurrences(RowEvents(i), e) > 0}

\* C39: every event the drain task popped is either once in the working
\* buffer and in no indexed batch, or once in one indexed batch and not in
\* the buffer
C39_PoppedInOnePlace ==
    \A k \in DOMAIN popped :
        LET e == popped[k] IN
        \/ /\ Occurrences(batch, e) = 1
           /\ RowsWith(e) = {}
        \/ /\ Occurrences(batch, e) = 0
           /\ Cardinality(RowsWith(e)) = 1
           /\ \A i \in RowsWith(e) : Occurrences(RowEvents(i), e) = 1

\* after a failed and a successful flush attempt some popped events are
\* committed and another is in the buffer
C39_Witness ==
    /\ index # <<>>
    /\ batch_counter > Len(index)
    /\ batch # <<>>
    /\ Len(popped) = MaxEvents

(***************************************************************************)
(* Claims about the drain tasks of one recorder (SpecStart)                *)
(***************************************************************************)
\* C36: a recorder has at most one drain task at any moment, and once
\* shutdown() has returned no drain task pops from the queue
C36_OneDrainTask ==
    [][/\ Cardinality(LiveTasks') <= 1
       /\ (shutRet /\ shutRet') => Len(mqueue') >= Len(mqueue)]_vars

====
